---------------------------- MODULE Spec2Model ----------------------------
(***************************************************************************)
(* Model of the JSON message codec of the Linux shell                      *)
(* (shell/platform/linux/fl_json_message_codec.cc), and of the pointer     *)
(* events of its view (shell/platform/linux/fl_view.cc).                   *)
(*                                                                         *)
(* Bytes are the integers 0..255.  A text is a sequence of bytes.  The     *)
(* 64-bit signed integers of the code are modelled with a reduced width    *)
(* IntBits (two's complement), so that the arithmetic of the code can be   *)
(* evaluated; every operation that can overflow is modelled with that      *)
(* width.                                                                  *)
(***************************************************************************)
EXTENDS Integers, Sequences, FiniteSets, TLC

VARIABLES charSigned,    \* build: plain char is a signed type
          trapOverflow,  \* build: signed overflow traps instead of wrapping
          phase,         \* "idle", "encoded", "received", "decoded"
          origin,        \* "none", "encode" (wire written by the encoder), "wire"
          message,       \* the Value handed to the encoder
          wire,          \* the bytes in flight
          encErr,        \* error kind set by the encoder
          decoded,       \* the Value returned by the decoder
          decErr,        \* error kind set by the decoder
          decOff,        \* cursor offset when the decoder returned
          decUnused,     \* byte count reported with AdditionalData
          button_state,  \* FlView: the buttons recorded down, one bit each
          engine,        \* FlView: the engine is set (not nullptr)
          log            \* the GDK events delivered and what was sent for each

viewVars == <<button_state, engine, log>>

vars == <<charSigned, trapOverflow, phase, origin, message, wire, encErr,
          decoded, decErr, decOff, decUnused, button_state, engine, log>>

---------------------------------------------------------------------------
(* Bounds of the model *)

IntBits == 16
Int32Bits == 5
MaxStrLen == 2
MaxListLen == 2
MaxTextLen == 3
MaxEvents == 3

---------------------------------------------------------------------------
(* Integer arithmetic of the reduced width *)

RECURSIVE Pow(_, _)
Pow(b, e) == IF e = 0 THEN 1 ELSE b * Pow(b, e - 1)

MaxInt == Pow(2, IntBits - 1) - 1
MinInt == 0 - Pow(2, IntBits - 1)
IntRange == MinInt..MaxInt

InRange(x) == x >= MinInt /\ x <= MaxInt

\* two's complement wrap of a mathematical integer
Wrap(x) == ((x - MinInt) % Pow(2, IntBits)) + MinInt

---------------------------------------------------------------------------
(* Characters *)

ChNul == 0
ChBackspace == 8
ChTab == 9
ChNewline == 10
ChFormFeed == 12
ChReturn == 13
ChSpace == 32
ChQuote == 34
ChPlus == 43
ChComma == 44
ChMinus == 45
ChDot == 46
ChSlash == 47
ChZero == 48
ChNine == 57
ChColon == 58
ChUpperA == 65
ChUpperE == 69
ChUpperF == 70
ChLBracket == 91
ChBackslash == 92
ChRBracket == 93
ChLowerA == 97
ChLowerB == 98
ChLowerE == 101
ChLowerF == 102
ChLowerN == 110
ChLowerR == 114
ChLowerT == 116
ChLowerU == 117
ChLBrace == 123
ChRBrace == 125

WordTrue == <<116, 114, 117, 101>>
WordFalse == <<102, 97, 108, 115, 101>>
WordNull == <<110, 117, 108, 108>>

\* the value of a byte read through a plain char, as the comparisons see it
CharVal(signed, b) == IF signed /\ b >= 128 THEN b - 256 ELSE b

is_json_whitespace(c) ==
    c = ChSpace \/ c = ChNewline \/ c = ChReturn \/ c = ChTab

json_int_to_digit(v) == ChZero + v

json_int_to_xdigit(v) == IF v < 10 THEN ChZero + v ELSE ChLowerA + v

json_digit_to_int(c) == IF c >= ChZero /\ c <= ChNine THEN c - ChZero ELSE 0 - 1

\* json_xdigit_to_int without the upper-case digits
json_xdigit_to_int_LowerOnly(c) ==
    IF c >= ChZero /\ c <= ChNine THEN c - ChZero
    ELSE IF c >= ChLowerA /\ c <= ChLowerF THEN c - ChLowerA + 10
    ELSE 0 - 1

json_xdigit_to_int(c) ==
    IF c >= ChZero /\ c <= ChNine THEN c - ChZero
    ELSE IF c >= ChLowerA /\ c <= ChLowerF THEN c - ChLowerA + 10
    ELSE IF c >= ChUpperA /\ c <= ChUpperF THEN c - ChUpperA + 10
    ELSE 0 - 1

---------------------------------------------------------------------------
(* The value model (FlValue) *)

NoFloat == [cls |-> "none", neg |-> FALSE, digits |-> <<>>, exp |-> 0]

Blank == [tag |-> "None", b |-> FALSE, n |-> 0, f |-> NoFloat, s |-> <<>>,
          keys |-> <<>>, kids |-> <<>>]

NullV == [Blank EXCEPT !.tag = "Null"]
BoolV(x) == [Blank EXCEPT !.tag = "Bool", !.b = x]
IntV(x) == [Blank EXCEPT !.tag = "Int", !.n = x]
FloatV(x) == [Blank EXCEPT !.tag = "Float", !.f = x]
StringV(x) == [Blank EXCEPT !.tag = "String", !.s = x]
Uint8ListV(x) == [Blank EXCEPT !.tag = "Uint8List", !.kids = x]
Int32ListV(x) == [Blank EXCEPT !.tag = "Int32List", !.kids = x]
Int64ListV(x) == [Blank EXCEPT !.tag = "Int64List", !.kids = x]
FloatListV(x) == [Blank EXCEPT !.tag = "FloatList", !.kids = x]
ListV(x) == [Blank EXCEPT !.tag = "List", !.kids = x]
MapV(k, v) == [Blank EXCEPT !.tag = "Map", !.keys = k, !.kids = v]

\* a finite double d1.d2...dn * 10^exp with d1 # 0 and dn # 0; zero has no digits
Fin(neg, digits, exp) ==
    [cls |-> "finite", neg |-> neg, digits |-> digits, exp |-> exp]
NaN == [cls |-> "nan", neg |-> FALSE, digits |-> <<>>, exp |-> 0]
Inf(neg) == [cls |-> "inf", neg |-> neg, digits |-> <<>>, exp |-> 0]
\* the result of a computation whose integer operands overflowed and wrapped
Wrapped == [cls |-> "wrapped", neg |-> FALSE, digits |-> <<>>, exp |-> 0]

isfinite(f) == f.cls = "finite" \/ f.cls = "wrapped"

---------------------------------------------------------------------------
(* Encoder *)

Uint8Bits == 4
DtostrPrecision == 17
DtostrMinExp == 0 - 4

ErrNone == "None"
ErrOutOfData == "OutOfData"
ErrAdditionalData == "AdditionalData"
ErrFailed == "ParseFailure"
ErrMissingComma == "MissingComma"
ErrInvalidNumber == "InvalidNumber"
ErrInvalidObjectKeyType == "InvalidObjectKeyType"
ErrInvalidStringCharacter == "InvalidStringCharacter"
ErrInvalidStringEscapeSequence == "InvalidStringEscapeSequence"
ErrInvalidStringUnicodeEscape == "InvalidStringUnicodeEscape"
\* the process was stopped by an overflow trap: no return at all
ErrTrap == "Trap"

write_char(buffer, value) == Append(buffer, value)

write_string(buffer, value) == buffer \o value

\* the decimal digits of a natural number, most significant first
RECURSIVE DecDigits(_)
DecDigits(n) == IF n < 10 THEN <<n>> ELSE Append(DecDigits(n \div 10), n % 10)

DigitText(ds) == [i \in 1..Len(ds) |-> ChZero + ds[i]]

\* the literal "-9223372036854775808" of the code: the digits of 2^(IntBits-1)
MinIntLiteral == <<ChMinus>> \o DigitText(DecDigits(0 - MinInt))

RECURSIVE write_int_divisor(_, _)
write_int_divisor(value, divisor) ==
    IF value \div divisor > 9 THEN write_int_divisor(value, divisor * 10)
    ELSE divisor

RECURSIVE write_int_digits(_, _, _)
write_int_digits(buffer, value, divisor) ==
    LET v == value \div divisor
        b == write_char(buffer, json_int_to_digit(v))
    IN IF divisor = 1 THEN b
       ELSE write_int_digits(b, value - v * divisor, divisor \div 10)

write_int(buffer, value) ==
    IF value = MinInt THEN write_string(buffer, MinIntLiteral)
    ELSE LET b == IF value < 0 THEN write_char(buffer, ChMinus) ELSE buffer
             a == IF value < 0 THEN 0 - value ELSE value
         IN write_int_digits(b, a, write_int_divisor(a, 1))

Zeros(k) == [i \in 1..k |-> 0]

\* the exponent of "%e": a sign and at least two digits
ExponentText(X) ==
    <<ChLowerE, IF X < 0 THEN ChMinus ELSE ChPlus>>
    \o DigitText(IF X < 10 /\ X > 0 - 10
                  THEN <<0, IF X < 0 THEN 0 - X ELSE X>>
                  ELSE DecDigits(IF X < 0 THEN 0 - X ELSE X))

\* n significant digits ds and decimal exponent X, without the sign
FormatG(ds, n, X) ==
    IF n = 0 THEN <<ChZero>>
    ELSE IF X < DtostrMinExp \/ X >= DtostrPrecision
         THEN (IF n = 1 THEN DigitText(ds)
               ELSE DigitText(<<ds[1]>>) \o <<ChDot>> \o DigitText(SubSeq(ds, 2, n)))
              \o ExponentText(X)
    ELSE IF X >= 0
         THEN IF n <= X + 1
              THEN DigitText(ds \o Zeros(X + 1 - n))
              ELSE DigitText(SubSeq(ds, 1, X + 1)) \o <<ChDot>>
                   \o DigitText(SubSeq(ds, X + 2, n))
    ELSE <<ChZero, ChDot>> \o DigitText(Zeros((0 - X) - 1) \o ds)

\* g_ascii_dtostr: the "%.17g" rendering of a finite double in the C locale
g_ascii_dtostr(f) ==
    (IF f.neg THEN <<ChMinus>> ELSE <<>>) \o FormatG(f.digits, Len(f.digits), f.exp)

strchr(text, c) == \E i \in 1..Len(text) : text[i] = c

\* the text of g_ascii_dtostr written, and ".0" after it if it has no '.'
write_double_text(buffer, text) ==
    [ok |-> TRUE,
     buf |-> IF ~strchr(text, ChDot)
             THEN write_string(write_string(buffer, text), <<ChDot, ChZero>>)
             ELSE write_string(buffer, text),
     err |-> ErrNone]

write_double(buffer, value) ==
    IF ~isfinite(value)
    THEN [ok |-> FALSE, buf |-> buffer, err |-> ErrInvalidNumber]
    ELSE write_double_text(buffer, g_ascii_dtostr(value))

\* a char converted to gunichar (32 bits, unsigned): its four bytes, high first
ToUnichar(signed, b) ==
    IF signed /\ b >= 128 THEN <<255, 255, 255, b>> ELSE <<0, 0, 0, b>>

write_unicode_escape(buffer, c) ==
    LET b0 == write_string(buffer, <<ChBackslash, ChLowerU>>)
        b1 == write_char(b0, json_int_to_xdigit(c[1] % 16))
        b2 == write_char(b1, json_int_to_xdigit(c[2] % 16))
        b3 == write_char(b2, json_int_to_xdigit(c[3] % 16))
    IN write_char(b3, json_int_to_xdigit(c[4] % 16))

\* one iteration of the FL_VALUE_TYPE_STRING loop of write_value
write_string_char(signed, buffer, b) ==
    IF b = ChQuote THEN write_string(buffer, <<ChBackslash, ChQuote>>)
    ELSE IF b = ChBackslash THEN write_string(buffer, <<ChBackslash, ChBackslash>>)
    ELSE IF b = ChBackspace THEN write_string(buffer, <<ChBackslash, ChLowerB>>)
    ELSE IF b = ChFormFeed THEN write_string(buffer, <<ChBackslash, ChLowerF>>)
    ELSE IF b = ChNewline THEN write_string(buffer, <<ChBackslash, ChLowerN>>)
    ELSE IF b = ChReturn THEN write_string(buffer, <<ChBackslash, ChLowerR>>)
    ELSE IF b = ChTab THEN write_string(buffer, <<ChBackslash, ChLowerT>>)
    ELSE IF CharVal(signed, b) < 32
         THEN write_unicode_escape(buffer, ToUnichar(signed, b))
    ELSE write_char(buffer, b)

RECURSIVE write_string_chars(_, _, _, _)
write_string_chars(signed, buffer, string, i) ==
    IF i > Len(string) \/ string[i] = ChNul THEN buffer
    ELSE write_string_chars(signed, write_string_char(signed, buffer, string[i]),
                            string, i + 1)

RECURSIVE write_int_list(_, _, _)

\* write_int_list without the separating comma
write_int_list_NoComma(buffer, values, i) ==
    IF i > Len(values) THEN buffer
    ELSE write_int_list(write_int(buffer, values[i].n), values, i + 1)

write_int_list(buffer, values, i) ==
    IF i > Len(values) THEN buffer
    ELSE write_int_list(
             write_int(IF i # 1 THEN write_char(buffer, ChComma) ELSE buffer,
                       values[i].n),
             values, i + 1)

RECURSIVE write_float_list(_, _, _)

\* after element i: return FALSE on its error, else go on with the next
write_float_list_next(r, values, i) ==
    IF ~r.ok THEN r ELSE write_float_list(r.buf, values, i + 1)

write_float_list(buffer, values, i) ==
    IF i > Len(values) THEN [ok |-> TRUE, buf |-> buffer, err |-> ErrNone]
    ELSE write_float_list_next(
             write_double(IF i # 1 THEN write_char(buffer, ChComma) ELSE buffer,
                          values[i].f),
             values, i)

RECURSIVE write_value(_, _, _)
RECURSIVE write_list_values(_, _, _, _)
RECURSIVE write_map_values(_, _, _, _)


\* after child i of a List
write_list_next(signed, r, value, i) ==
    IF ~r.ok THEN r ELSE write_list_values(signed, r.buf, value, i + 1)

write_list_values(signed, buffer, value, i) ==
    IF i > Len(value.kids) THEN [ok |-> TRUE, buf |-> buffer, err |-> ErrNone]
    ELSE write_list_next(
             signed,
             write_value(signed,
                         IF i # 1 THEN write_char(buffer, ChComma) ELSE buffer,
                         value.kids[i]),
             value, i)

\* after the value of pair i of a Map
write_map_next(signed, v, value, i) ==
    IF ~v.ok THEN v ELSE write_map_values(signed, v.buf, value, i + 1)

\* write_map_value writing a space after the ':'
write_map_value_Space(signed, k, value, i) ==
    IF ~k.ok THEN k
    ELSE write_map_next(
             signed,
             write_value(signed, write_char(write_char(k.buf, ChColon), ChSpace),
                         value.kids[i]),
             value, i)

\* after the key of pair i of a Map: the ':' and the value
write_map_value(signed, k, value, i) ==
    IF ~k.ok THEN k
    ELSE write_map_next(
             signed,
             write_value(signed, write_char(k.buf, ChColon), value.kids[i]),
             value, i)

write_map_values(signed, buffer, value, i) ==
    IF i > Len(value.kids) THEN [ok |-> TRUE, buf |-> buffer, err |-> ErrNone]
    ELSE write_map_value(
             signed,
             write_value(signed,
                         IF i # 1 THEN write_char(buffer, ChComma) ELSE buffer,
                         value.keys[i]),
             value, i)

\* value.tag = "None" is the null pointer
write_value(signed, buffer, value) ==
    LET done(b) == [ok |-> TRUE, buf |-> b, err |-> ErrNone]
        close(r, c) == IF r.ok THEN done(write_char(r.buf, c)) ELSE r
    IN CASE value.tag = "None" -> done(write_string(buffer, WordNull))
         [] value.tag = "Null" -> done(write_string(buffer, WordNull))
         [] value.tag = "Bool" ->
                done(write_string(buffer, IF value.b THEN WordTrue ELSE WordFalse))
         [] value.tag = "Int" -> done(write_int(buffer, value.n))
         [] value.tag = "Float" -> write_double(buffer, value.f)
         [] value.tag = "String" ->
                done(write_char(
                         write_string_chars(signed, write_char(buffer, ChQuote),
                                            value.s, 1),
                         ChQuote))
         [] value.tag \in {"Uint8List", "Int32List", "Int64List"} ->
                done(write_char(
                         write_int_list(write_char(buffer, ChLBracket),
                                        value.kids, 1),
                         ChRBracket))
         [] value.tag = "FloatList" ->
                close(write_float_list(write_char(buffer, ChLBracket),
                                       value.kids, 1),
                      ChRBracket)
         [] value.tag = "List" ->
                close(write_list_values(signed, write_char(buffer, ChLBracket),
                                        value, 1),
                      ChRBracket)
         [] value.tag = "Map" ->
                close(write_map_values(signed, write_char(buffer, ChLBrace),
                                       value, 1),
                      ChRBrace)

\* encode_result handing out the buffer written so far when write_value failed
encode_result_Partial(r) == [ok |-> r.ok, bytes |-> r.buf, err |-> r.err]

\* the buffer is freed and nullptr returned if write_value failed
encode_result(r) ==
    IF ~r.ok THEN [ok |-> FALSE, bytes |-> <<>>, err |-> r.err]
    ELSE [ok |-> TRUE, bytes |-> r.buf, err |-> ErrNone]

\* fl_json_message_codec_encode_message: the bytes, or no bytes and an error
encode_message(signed, msg) == encode_result(write_value(signed, <<>>, msg))

---------------------------------------------------------------------------
(* Decoder *)

DblMaxExp10 == 308
DblMinExp10 == 0 - 323

Fail(off, kind) == [val |-> Blank, off |-> off, err |-> kind]
Done(off, v) == [val |-> v, off |-> off, err |-> ErrNone]

current_char(buffer, offset) ==
    IF offset >= Len(buffer) THEN ChNul ELSE buffer[offset + 1]

next_char(offset) == offset + 1

RECURSIVE read_whitespace(_, _)
read_whitespace(buffer, offset) ==
    IF is_json_whitespace(current_char(buffer, offset))
    THEN read_whitespace(buffer, next_char(offset))
    ELSE offset

\* the offset after the word, or the FAILED error
RECURSIVE read_word(_, _, _, _)
read_word(buffer, offset, word, i) ==
    IF i > Len(word) THEN Done(offset, Blank)
    ELSE IF current_char(buffer, offset) # word[i] THEN Fail(offset, ErrFailed)
    ELSE read_word(buffer, next_char(offset), word, i + 1)

\* the value of a literal word, once the word has been read
read_word_value(r, value) ==
    IF r.err # ErrNone THEN r ELSE Done(r.off, value)

read_json_true(buffer, offset) ==
    read_word_value(read_word(buffer, offset, WordTrue, 1), BoolV(TRUE))

read_json_false(buffer, offset) ==
    read_word_value(read_word(buffer, offset, WordFalse, 1), BoolV(FALSE))

read_json_null(buffer, offset) ==
    read_word_value(read_word(buffer, offset, WordNull, 1), NullV)

\* read_comma taking the comma as optional
read_comma_Optional(buffer, offset) ==
    IF current_char(buffer, offset) # ChComma THEN Done(offset, Blank)
    ELSE Done(next_char(offset), Blank)

read_comma(buffer, offset) ==
    IF current_char(buffer, offset) # ChComma THEN Fail(offset, ErrMissingComma)
    ELSE Done(next_char(offset), Blank)

RECURSIVE read_json_unichar_code(_, _, _, _)

\* one hex digit of the code point
read_json_unichar_digit(buffer, offset, wc, i, xdigit) ==
    IF xdigit < 0
    THEN [wc |-> 0, off |-> offset, err |-> ErrInvalidStringUnicodeEscape]
    ELSE read_json_unichar_code(buffer, next_char(offset), wc * 16 + xdigit, i + 1)

\* the code point in .wc
read_json_unichar_code(buffer, offset, wc, i) ==
    IF i >= 4 THEN [wc |-> wc, off |-> offset, err |-> ErrNone]
    ELSE read_json_unichar_digit(buffer, offset, wc, i,
                                 json_xdigit_to_int(current_char(buffer, offset)))

\* read_json_escape_char reporting the end of the input as OutOfData
read_json_escape_char_OutOfData(buffer, offset, c) ==
    IF c = ChLowerU THEN read_json_unichar_code(buffer, next_char(offset), 0, 0)
    ELSE IF c = ChNul THEN [wc |-> 0, off |-> offset, err |-> ErrOutOfData]
    ELSE IF c \in {ChQuote, ChBackslash, ChSlash}
         THEN [wc |-> c, off |-> next_char(offset), err |-> ErrNone]
    ELSE IF c = ChLowerB
         THEN [wc |-> ChBackspace, off |-> next_char(offset), err |-> ErrNone]
    ELSE IF c = ChLowerF
         THEN [wc |-> ChFormFeed, off |-> next_char(offset), err |-> ErrNone]
    ELSE IF c = ChLowerN
         THEN [wc |-> ChNewline, off |-> next_char(offset), err |-> ErrNone]
    ELSE IF c = ChLowerR
         THEN [wc |-> ChReturn, off |-> next_char(offset), err |-> ErrNone]
    ELSE IF c = ChLowerT
         THEN [wc |-> ChTab, off |-> next_char(offset), err |-> ErrNone]
    ELSE [wc |-> 0, off |-> offset, err |-> ErrInvalidStringEscapeSequence]

\* the character an escape letter c stands for
\* read_json_escape_char taking any other character as it is
read_json_escape_char_Any(buffer, offset, c) ==
    IF c = ChLowerU THEN read_json_unichar_code(buffer, next_char(offset), 0, 0)
    ELSE IF c = ChLowerB
         THEN [wc |-> ChBackspace, off |-> next_char(offset), err |-> ErrNone]
    ELSE IF c = ChLowerF
         THEN [wc |-> ChFormFeed, off |-> next_char(offset), err |-> ErrNone]
    ELSE IF c = ChLowerN
         THEN [wc |-> ChNewline, off |-> next_char(offset), err |-> ErrNone]
    ELSE IF c = ChLowerR
         THEN [wc |-> ChReturn, off |-> next_char(offset), err |-> ErrNone]
    ELSE IF c = ChLowerT
         THEN [wc |-> ChTab, off |-> next_char(offset), err |-> ErrNone]
    ELSE [wc |-> c, off |-> next_char(offset), err |-> ErrNone]

read_json_escape_char(buffer, offset, c) ==
    IF c = ChLowerU THEN read_json_unichar_code(buffer, next_char(offset), 0, 0)
    ELSE IF c \in {ChQuote, ChBackslash, ChSlash}
         THEN [wc |-> c, off |-> next_char(offset), err |-> ErrNone]
    ELSE IF c = ChLowerB
         THEN [wc |-> ChBackspace, off |-> next_char(offset), err |-> ErrNone]
    ELSE IF c = ChLowerF
         THEN [wc |-> ChFormFeed, off |-> next_char(offset), err |-> ErrNone]
    ELSE IF c = ChLowerN
         THEN [wc |-> ChNewline, off |-> next_char(offset), err |-> ErrNone]
    ELSE IF c = ChLowerR
         THEN [wc |-> ChReturn, off |-> next_char(offset), err |-> ErrNone]
    ELSE IF c = ChLowerT
         THEN [wc |-> ChTab, off |-> next_char(offset), err |-> ErrNone]
    ELSE [wc |-> 0, off |-> offset, err |-> ErrInvalidStringEscapeSequence]

read_json_string_escape(buffer, offset) ==
    read_json_escape_char(buffer, offset, current_char(buffer, offset))

\* g_string_append_unichar: the UTF-8 bytes of a code point below 0x10000
g_string_append_unichar(text, wc) ==
    IF wc < 128 THEN Append(text, wc)
    ELSE IF wc < 2048 THEN text \o <<192 + (wc \div 64), 128 + (wc % 64)>>
    ELSE text \o <<224 + (wc \div 4096), 128 + ((wc \div 64) % 64),
                   128 + (wc % 64)>>

\* fl_value_new_string copies a NUL-terminated C string
RECURSIVE CStr(_)
CStr(text) ==
    IF text = <<>> \/ Head(text) = ChNul THEN <<>>
    ELSE <<Head(text)>> \o CStr(Tail(text))

fl_value_new_string(text) == StringV(CStr(text))

RECURSIVE read_json_string_loop(_, _, _, _)

\* after an escape sequence e
read_json_string_escaped(signed, buffer, text, e) ==
    IF e.err # ErrNone THEN Fail(e.off, e.err)
    ELSE read_json_string_loop(signed, buffer, e.off,
                               g_string_append_unichar(text, e.wc))

\* read_json_string_char copying a raw tab
read_json_string_char_TabAllowed(signed, buffer, offset, text, c) ==
    IF c = ChQuote THEN Done(next_char(offset), fl_value_new_string(text))
    ELSE IF c = ChBackslash
         THEN read_json_string_escaped(
                  signed, buffer, text,
                  read_json_string_escape(buffer, next_char(offset)))
    ELSE IF c = ChNul THEN Fail(offset, ErrOutOfData)
    ELSE IF CharVal(signed, c) < 32 /\ c # ChTab
         THEN Fail(offset, ErrInvalidStringCharacter)
    ELSE read_json_string_loop(signed, buffer, next_char(offset), Append(text, c))

\* one iteration of the loop, on the current character c
read_json_string_char(signed, buffer, offset, text, c) ==
    IF c = ChQuote THEN Done(next_char(offset), fl_value_new_string(text))
    ELSE IF c = ChBackslash
         THEN read_json_string_escaped(
                  signed, buffer, text,
                  read_json_string_escape(buffer, next_char(offset)))
    ELSE IF c = ChNul THEN Fail(offset, ErrOutOfData)
    ELSE IF CharVal(signed, c) < 32 THEN Fail(offset, ErrInvalidStringCharacter)
    ELSE read_json_string_loop(signed, buffer, next_char(offset), Append(text, c))

read_json_string_loop(signed, buffer, offset, text) ==
    read_json_string_char(signed, buffer, offset, text, current_char(buffer, offset))

read_json_string(signed, buffer, offset) ==
    read_json_string_loop(signed, buffer, next_char(offset), <<>>)

RECURSIVE read_json_digits_loop(_, _, _, _, _, _)

\* one digit d accumulated: v and dv are the exact products before they wrap
read_json_digits_add(buffer, offset, v, divisor, dv, ovf, count) ==
    read_json_digits_loop(buffer, next_char(offset), Wrap(v),
                          IF divisor = 0 THEN 0 ELSE Wrap(dv),
                          ovf \/ ~InRange(v) \/ (divisor # 0 /\ ~InRange(dv)),
                          count + 1)

read_json_digits_digit(buffer, offset, value, divisor, ovf, count, d) ==
    IF d < 0
    THEN [value |-> value, divisor |-> divisor, off |-> offset, ovf |-> ovf,
          count |-> count]
    ELSE read_json_digits_add(buffer, offset, value * 10 + d, divisor,
                              divisor * 10, ovf, count)

\* .value and .divisor as the code accumulates them; .ovf: a signed overflow
\* happened; .count: the digits consumed
read_json_digits_loop(buffer, offset, value, divisor, ovf, count) ==
    read_json_digits_digit(buffer, offset, value, divisor, ovf, count,
                           json_digit_to_int(current_char(buffer, offset)))

\* divisor = 0 stands for the null divisor pointer
read_json_digits(buffer, offset, withDivisor) ==
    read_json_digits_loop(buffer, offset, 0, IF withDivisor THEN 1 ELSE 0,
                          FALSE, 0)

\* the result of reading no digits at offset
NoDigits(offset, divisor) ==
    [value |-> 0, divisor |-> divisor, off |-> offset, ovf |-> FALSE, count |-> 0]

RECURSIVE StripLeadingZeros(_)
StripLeadingZeros(ds) ==
    IF ds # <<>> /\ Head(ds) = 0 THEN StripLeadingZeros(Tail(ds)) ELSE ds

RECURSIVE StripTrailingZeros(_)
StripTrailingZeros(ds) ==
    IF ds # <<>> /\ ds[Len(ds)] = 0
    THEN StripTrailingZeros(SubSeq(ds, 1, Len(ds) - 1))
    ELSE ds

\* the fcount digits of the fraction, leading zeros included
FractionDigits(fd, fcount) ==
    IF fcount = 0 THEN <<>> ELSE Zeros(fcount - Len(fd)) \o fd

\* the double with significant digits sig and decimal exponent X
MakeDoubleOf(neg, sig, X, exponent) ==
    IF exponent > DblMaxExp10
    THEN (IF sig = <<>> THEN NaN ELSE Inf(neg))
    ELSE IF sig = <<>> \/ exponent < DblMinExp10 \/ X < DblMinExp10 - 1
         THEN Fin(neg, <<>>, 0)
    ELSE IF X > DblMaxExp10 THEN Inf(neg)
    ELSE Fin(neg, sig, X)

\* all: the digits of the integer part (ilen of them) and of the fraction;
\* lead: the same without leading zeros
MakeDoubleDigits(neg, ilen, all, lead, exponent) ==
    MakeDoubleOf(neg, StripTrailingZeros(lead),
                 (ilen - 1) - (Len(all) - Len(lead)) + exponent, exponent)

MakeDoubleAll(neg, ilen, all, exponent) ==
    MakeDoubleDigits(neg, ilen, all, StripLeadingZeros(all), exponent)

MakeDoubleParts(neg, intDigits, fracDigits, exponent) ==
    MakeDoubleAll(neg, Len(intDigits), intDigits \o fracDigits, exponent)

\* sign * (value + (double)fraction / divisor) * pow(10, exponent), for operands
\* that did not overflow; fraction has fcount digits
MakeDouble(sign, value, fraction, fcount, exponent) ==
    MakeDoubleParts(sign < 0, DecDigits(value),
                    FractionDigits(DecDigits(fraction), fcount), exponent)

\* the value returned: ep is the exponent read, or no digits
read_json_number_value(trap, sign, ip, fp, is_floating, exponent_sign, ep) ==
    IF trap /\ (ep.ovf \/ (~is_floating /\ ~InRange(sign * ip.value)))
    THEN Fail(ep.off, ErrTrap)
    ELSE IF is_floating
         THEN Done(ep.off,
                   FloatV(IF ip.ovf \/ fp.ovf \/ ep.ovf THEN Wrapped
                          ELSE MakeDouble(sign, ip.value, fp.value, fp.count,
                                          exponent_sign * ep.value)))
    ELSE Done(ep.off, IntV(Wrap(sign * ip.value)))

\* the digits of the exponent, at offset
read_json_number_exponent_digits(trap, buffer, sign, ip, fp, exponent_sign, offset) ==
    IF json_digit_to_int(current_char(buffer, offset)) < 0
    THEN Fail(offset, ErrInvalidNumber)
    ELSE read_json_number_value(trap, sign, ip, fp, TRUE, exponent_sign,
                                read_json_digits(buffer, offset, FALSE))

\* the sign of the exponent: c is the character after the 'e'
read_json_number_exponent_sign(trap, buffer, sign, ip, fp, c) ==
    read_json_number_exponent_digits(
        trap, buffer, sign, ip, fp,
        IF c = ChMinus THEN 0 - 1 ELSE 1,
        IF c = ChMinus \/ c = ChPlus THEN next_char(next_char(fp.off))
        ELSE next_char(fp.off))

\* the exponent: c is still the character that followed the integer part, it
\* is not read again after the fraction
read_json_number_exponent(trap, buffer, sign, ip, c, is_floating, fp) ==
    IF trap /\ fp.ovf THEN Fail(fp.off, ErrTrap)
    ELSE IF c = ChUpperE \/ c = ChLowerE
         THEN read_json_number_exponent_sign(
                  trap, buffer, sign, ip, fp,
                  current_char(buffer, next_char(fp.off)))
    ELSE read_json_number_value(trap, sign, ip, fp, is_floating, 1,
                                NoDigits(fp.off, 0))

\* the fraction: c is the character after the integer part
read_json_number_fraction(trap, buffer, sign, ip, c) ==
    IF c = ChDot
    THEN IF json_digit_to_int(current_char(buffer, next_char(ip.off))) < 0
         THEN Fail(next_char(ip.off), ErrInvalidNumber)
         ELSE read_json_number_exponent(
                  trap, buffer, sign, ip, c, TRUE,
                  read_json_digits(buffer, next_char(ip.off), TRUE))
    ELSE read_json_number_exponent(trap, buffer, sign, ip, c, FALSE,
                                   NoDigits(ip.off, 1))

\* after the integer part ip
read_json_number_integer(trap, buffer, sign, ip) ==
    IF trap /\ ip.ovf THEN Fail(ip.off, ErrTrap)
    ELSE read_json_number_fraction(trap, buffer, sign, ip,
                                   current_char(buffer, ip.off))

\* read_json_number_unsigned reading a leading '0' as the first of a run of digits
read_json_number_unsigned_ZeroRun(trap, buffer, sign, offset) ==
    read_json_number_integer(trap, buffer, sign,
                             read_json_digits(buffer, offset, FALSE))

\* the integer part, at offset: a single '0' or a run of digits
read_json_number_unsigned(trap, buffer, sign, offset) ==
    read_json_number_integer(
        trap, buffer, sign,
        IF current_char(buffer, offset) = ChZero
        THEN [value |-> 0, divisor |-> 0, off |-> next_char(offset),
              ovf |-> FALSE, count |-> 1]
        ELSE read_json_digits(buffer, offset, FALSE))

read_json_number(trap, buffer, offset) ==
    IF current_char(buffer, offset) = ChMinus
    THEN IF json_digit_to_int(current_char(buffer, next_char(offset))) < 0
         THEN Fail(next_char(offset), ErrInvalidNumber)
         ELSE read_json_number_unsigned(trap, buffer, 0 - 1, next_char(offset))
    ELSE read_json_number_unsigned(trap, buffer, 1, offset)

\* fl_value_set: replaces the value of an equal key, else appends the pair
fl_value_set(map, key, value) ==
    IF \E i \in 1..Len(map.keys) : map.keys[i] = key
    THEN [map EXCEPT !.kids[CHOOSE j \in 1..Len(map.keys) : map.keys[j] = key] =
                         value]
    ELSE [map EXCEPT !.keys = Append(@, key), !.kids = Append(@, value)]

fl_value_append(list, child) == [list EXCEPT !.kids = Append(@, child)]

fl_value_get_length(v) == Len(v.kids)

RECURSIVE read_value(_, _, _, _)
RECURSIVE read_json_array_loop(_, _, _, _, _)
RECURSIVE read_json_object_loop(_, _, _, _, _)

\* read_json_object_set adding every pair at the end of the map
read_json_object_set_Append(signed, trap, buffer, map, key, value) ==
    IF value.err # ErrNone THEN value
    ELSE read_json_object_loop(signed, trap, buffer, value.off,
                               [map EXCEPT !.keys = Append(@, key.val),
                                           !.kids = Append(@, value.val)])

\* the pair is set in the map and the loop goes on
read_json_object_set(signed, trap, buffer, map, key, value) ==
    IF value.err # ErrNone THEN value
    ELSE read_json_object_loop(signed, trap, buffer, value.off,
                               fl_value_set(map, key.val, value.val))

\* read_json_object_colon taking the colon as optional
read_json_object_colon_Optional(signed, trap, buffer, map, key, offset) ==
    IF current_char(buffer, offset) # ChColon
    THEN read_json_object_set(signed, trap, buffer, map, key,
                              read_value(signed, trap, buffer, offset))
    ELSE read_json_object_set(signed, trap, buffer, map, key,
                              read_value(signed, trap, buffer, next_char(offset)))

\* the ':' at offset and the value after it
read_json_object_colon(signed, trap, buffer, map, key, offset) ==
    IF current_char(buffer, offset) # ChColon THEN Fail(offset, ErrFailed)
    ELSE read_json_object_set(signed, trap, buffer, map, key,
                              read_value(signed, trap, buffer, next_char(offset)))

\* after the key
read_json_object_value(signed, trap, buffer, map, key) ==
    IF key.err # ErrNone THEN key
    ELSE read_json_object_colon(signed, trap, buffer, map, key,
                                read_whitespace(buffer, key.off))

\* read_json_object_key reading the key with the value reader, whatever its
\* first byte
read_json_object_key_AnyKey(signed, trap, buffer, offset, map) ==
    read_json_object_value(signed, trap, buffer, map,
                           read_value(signed, trap, buffer, offset))

\* the key, at offset: it must start with a quote
read_json_object_key(signed, trap, buffer, offset, map) ==
    IF current_char(buffer, offset) # ChQuote
    THEN Fail(offset, ErrInvalidObjectKeyType)
    ELSE read_json_object_value(signed, trap, buffer, map,
                                read_json_string(signed, buffer, offset))

\* read_json_object_comma taking the closing brace after the comma
read_json_object_comma_Trailing(signed, trap, buffer, map, cm) ==
    IF cm.err # ErrNone THEN cm
    ELSE IF current_char(buffer, read_whitespace(buffer, cm.off)) = ChRBrace
         THEN Done(next_char(read_whitespace(buffer, cm.off)), map)
    ELSE read_json_object_key(signed, trap, buffer,
                              read_whitespace(buffer, cm.off), map)

\* after the comma between two pairs
read_json_object_comma(signed, trap, buffer, map, cm) ==
    IF cm.err # ErrNone THEN cm
    ELSE read_json_object_key(signed, trap, buffer,
                              read_whitespace(buffer, cm.off), map)

\* one iteration of the loop, past the whitespace
read_json_object_pair(signed, trap, buffer, offset, map) ==
    IF current_char(buffer, offset) = ChNul THEN Fail(offset, ErrOutOfData)
    ELSE IF current_char(buffer, offset) = ChRBrace
         THEN Done(next_char(offset), map)
    ELSE IF fl_value_get_length(map) # 0
         THEN read_json_object_comma(signed, trap, buffer, map,
                                     read_comma(buffer, offset))
    ELSE read_json_object_key(signed, trap, buffer, offset, map)

read_json_object_loop(signed, trap, buffer, offset, map) ==
    read_json_object_pair(signed, trap, buffer, read_whitespace(buffer, offset),
                          map)

read_json_object(signed, trap, buffer, offset) ==
    read_json_object_loop(signed, trap, buffer, next_char(offset), MapV(<<>>, <<>>))

\* the child is appended and the loop goes on
read_json_array_append(signed, trap, buffer, value, child) ==
    IF child.err # ErrNone THEN child
    ELSE read_json_array_loop(signed, trap, buffer, child.off,
                              fl_value_append(value, child.val))

\* after the comma between two elements
read_json_array_comma(signed, trap, buffer, value, cm) ==
    IF cm.err # ErrNone THEN cm
    ELSE read_json_array_append(
             signed, trap, buffer, value,
             read_value(signed, trap, buffer, read_whitespace(buffer, cm.off)))

\* read_json_array_element without the test for the end of the input
read_json_array_element_NoEndTest(signed, trap, buffer, offset, value) ==
    IF current_char(buffer, offset) = ChRBracket
    THEN Done(next_char(offset), value)
    ELSE IF fl_value_get_length(value) # 0
         THEN read_json_array_comma(signed, trap, buffer, value,
                                    read_comma(buffer, offset))
    ELSE read_json_array_append(signed, trap, buffer, value,
                                read_value(signed, trap, buffer, offset))

\* one iteration of the loop, past the whitespace
read_json_array_element(signed, trap, buffer, offset, value) ==
    IF current_char(buffer, offset) = ChNul THEN Fail(offset, ErrOutOfData)
    ELSE IF current_char(buffer, offset) = ChRBracket
         THEN Done(next_char(offset), value)
    ELSE IF fl_value_get_length(value) # 0
         THEN read_json_array_comma(signed, trap, buffer, value,
                                    read_comma(buffer, offset))
    ELSE read_json_array_append(signed, trap, buffer, value,
                                read_value(signed, trap, buffer, offset))

read_json_array_loop(signed, trap, buffer, offset, value) ==
    read_json_array_element(signed, trap, buffer,
                            read_whitespace(buffer, offset), value)

read_json_array(signed, trap, buffer, offset) ==
    read_json_array_loop(signed, trap, buffer, next_char(offset), ListV(<<>>))

\* read_value_trailing leaving the whitespace after the value unread
read_value_trailing_NoSkip(buffer, value) == value

\* the whitespace after a value that was read
read_value_trailing(buffer, value) ==
    IF value.err # ErrNone THEN value
    ELSE Done(read_whitespace(buffer, value.off), value.val)

\* read_value_of reading a null of no bytes where a bracket closes
read_value_of_EmptyValue(signed, trap, buffer, offset, c) ==
    IF c = ChLBrace THEN read_json_object(signed, trap, buffer, offset)
    ELSE IF c = ChLBracket THEN read_json_array(signed, trap, buffer, offset)
    ELSE IF c = ChQuote THEN read_json_string(signed, buffer, offset)
    ELSE IF c = ChMinus \/ json_digit_to_int(c) >= 0
         THEN read_json_number(trap, buffer, offset)
    ELSE IF c = ChLowerT THEN read_json_true(buffer, offset)
    ELSE IF c = ChLowerF THEN read_json_false(buffer, offset)
    ELSE IF c = ChLowerN THEN read_json_null(buffer, offset)
    ELSE IF c = ChNul THEN Fail(offset, ErrOutOfData)
    ELSE IF c = ChRBracket THEN Done(offset, NullV)
    ELSE Fail(offset, ErrFailed)

\* the reader chosen by the first character c of the value
read_value_of(signed, trap, buffer, offset, c) ==
    IF c = ChLBrace THEN read_json_object(signed, trap, buffer, offset)
    ELSE IF c = ChLBracket THEN read_json_array(signed, trap, buffer, offset)
    ELSE IF c = ChQuote THEN read_json_string(signed, buffer, offset)
    ELSE IF c = ChMinus \/ json_digit_to_int(c) >= 0
         THEN read_json_number(trap, buffer, offset)
    ELSE IF c = ChLowerT THEN read_json_true(buffer, offset)
    ELSE IF c = ChLowerF THEN read_json_false(buffer, offset)
    ELSE IF c = ChLowerN THEN read_json_null(buffer, offset)
    ELSE IF c = ChNul THEN Fail(offset, ErrOutOfData)
    ELSE Fail(offset, ErrFailed)

read_value_at(signed, trap, buffer, offset) ==
    read_value_trailing(buffer,
                        read_value_of(signed, trap, buffer, offset,
                                      current_char(buffer, offset)))

read_value(signed, trap, buffer, offset) ==
    read_value_at(signed, trap, buffer, read_whitespace(buffer, offset))

\* decode_result without the comparison of the offset with the size
decode_result_NoSizeCheck(msg, r) ==
    IF r.err # ErrNone
    THEN [val |-> Blank, off |-> r.off, err |-> r.err, unused |-> 0]
    ELSE [val |-> r.val, off |-> r.off, err |-> ErrNone, unused |-> 0]

\* what decode_message returns for the value read: .unused is the count in
\* the AdditionalData message
decode_result(msg, r) ==
    IF r.err # ErrNone
    THEN [val |-> Blank, off |-> r.off, err |-> r.err, unused |-> 0]
    ELSE IF r.off # Len(msg)
         THEN [val |-> Blank, off |-> r.off, err |-> ErrAdditionalData,
               unused |-> Len(msg) - r.off]
    ELSE [val |-> r.val, off |-> r.off, err |-> ErrNone, unused |-> 0]

\* fl_json_message_codec_decode_message
decode_message(signed, trap, msg) ==
    decode_result(msg, read_value(signed, trap, msg, 0))

---------------------------------------------------------------------------
(* Inputs: the Values handed to the encoder and the texts put on the wire *)

Seqs(S, n) == UNION {[1..k -> S] : k \in 0..n}

\* bytes of strings longer than one byte: control bytes, the escaped bytes,
\* plain ASCII and the bytes of a two-byte UTF-8 sequence
StrBytes == {11, 31, 34, 92, 97, 169, 195}

\* NUL-free byte strings: every string of length 1, and the strings over StrBytes
Strings == {<<b>> : b \in 1..255} \cup Seqs(StrBytes, MaxStrLen)

FZero == Fin(FALSE, <<>>, 0)
FMinusZero == Fin(TRUE, <<>>, 0)
FOne == Fin(FALSE, <<1>>, 0)
FHalf == Fin(FALSE, <<5>>, 0 - 1)
FMinusOneHalf == Fin(TRUE, <<1, 5>>, 0)
F1e20 == Fin(FALSE, <<1>>, 20)
F15e19 == Fin(FALSE, <<1, 5>>, 20)

\* doubles whose decimal expansion is exact and short
FiniteFloats == {FZero, FMinusZero, FOne, FHalf, FMinusOneHalf,
                 Fin(FALSE, <<1, 2, 5>>, 1), Fin(FALSE, <<1>>, 2),
                 Fin(FALSE, <<6, 2, 5>>, 0 - 2), Fin(TRUE, <<1>>, 17),
                 F1e20, F15e19, Fin(FALSE, <<1>>, 22)}

Floats == FiniteFloats \cup {NaN, Inf(FALSE), Inf(TRUE)}

Abs(x) == IF x < 0 THEN 0 - x ELSE x

\* the integers around zero, around the powers of ten and at both ends of the
\* range
Ints == {n \in IntRange :
            \/ Abs(n) <= 110
            \/ n >= MaxInt - 12
            \/ n <= MinInt + 12
            \/ \E k \in 3..6 : Abs(Abs(n) - Pow(10, k)) <= 1}

Scalars == {NullV, BoolV(TRUE), BoolV(FALSE)}
           \cup {IntV(n) : n \in Ints}
           \cup {FloatV(f) : f \in Floats}
           \cup {StringV(x) : x \in Strings}

Uint8Elems == {IntV(0), IntV(9), IntV(10), IntV(Pow(2, Uint8Bits) - 1)}
Int32Elems == {IntV(0 - Pow(2, Int32Bits - 1)), IntV(0 - 1), IntV(0),
               IntV(Pow(2, Int32Bits - 1) - 1)}
Int64Elems == {IntV(MinInt), IntV(0 - 10), IntV(7), IntV(MaxInt)}
FloatElems == {FloatV(FZero), FloatV(FHalf), FloatV(FMinusOneHalf), FloatV(F1e20),
               FloatV(NaN)}

TypedLists ==
    {Uint8ListV(x) : x \in Seqs(Uint8Elems, MaxListLen)}
    \cup {Int32ListV(x) : x \in Seqs(Int32Elems, MaxListLen)}
    \cup {Int64ListV(x) : x \in Seqs(Int64Elems, MaxListLen)}
    \cup {FloatListV(x) : x \in Seqs(FloatElems, MaxListLen)}

StrA == StringV(<<97>>)
StrB == StringV(<<98>>)

Leaves == {NullV, BoolV(FALSE), IntV(0), IntV(0 - 12), FloatV(FMinusOneHalf),
           StrA, StringV(<<>>)}

\* maps are built with fl_value_set, so their keys are pairwise different
Distinct(ks) == \A i, j \in 1..Len(ks) : i # j => ks[i] # ks[j]

MapsOver(K, V) ==
    UNION {{MapV(ks, vs) : ks \in {x \in [1..k -> K] : Distinct(x)},
                           vs \in [1..k -> V]} : k \in 0..MaxListLen}

Inner == {ListV(<<>>), ListV(<<IntV(1), StrA>>), MapV(<<>>, <<>>),
          MapV(<<StrA>>, <<IntV(1)>>), MapV(<<IntV(1)>>, <<StrA>>)}

MapKeys == {StrA, StrB, NullV, BoolV(TRUE), IntV(42), FloatV(FMinusOneHalf),
            ListV(<<>>), MapV(<<>>, <<>>)}
MapVals == {NullV, StrB, FloatV(F1e20), MapV(<<StrA>>, <<NullV>>)}
Nested == {ListV(<<IntV(1), StrA>>), MapV(<<StrA>>, <<IntV(1)>>), IntV(5)}

Containers ==
    {ListV(x) : x \in Seqs(Leaves, MaxListLen)}
    \cup {ListV(x) : x \in Seqs(Inner \cup {IntV(MinInt), FloatV(Inf(FALSE))},
                               MaxListLen)}
    \cup MapsOver(MapKeys, {NullV})
    \cup MapsOver({StrA, StrB}, MapVals)
    \cup MapsOver({StrA, StrB, StringV(<<195, 169>>)}, Nested)

\* containers holding a non-finite Float: as a Map key, as a Map value after
\* a pair already written, and nested two levels deep
NonFiniteNested ==
    {MapV(<<FloatV(NaN)>>, <<NullV>>),
     MapV(<<StrA>>, <<FloatV(Inf(TRUE))>>),
     MapV(<<StrA, StrB>>, <<IntV(1), FloatV(NaN)>>),
     MapV(<<StrA, FloatV(Inf(FALSE))>>, <<IntV(1), IntV(2)>>),
     ListV(<<IntV(1), ListV(<<StrA, FloatV(Inf(FALSE))>>)>>),
     ListV(<<MapV(<<StrA>>, <<FloatListV(<<FloatV(FHalf), FloatV(NaN)>>)>>)>>)}

\* tag "None" is the absent (null pointer) message
Values == {Blank} \cup Scalars \cup TypedLists \cup Containers \cup NonFiniteNested

\* texts of the bytes that matter to the grammar, up to MaxTextLen bytes
TextBytes == {ChLBracket, ChRBracket, ChLBrace, ChQuote, ChComma, ChZero,
              ChSpace}

ShortTexts == Seqs(TextBytes, MaxTextLen)

\* string literals: every one-byte body, and bodies over StrBytes
StringTexts == {<<ChQuote>> \o x \o <<ChQuote>> : x \in Strings}

\* number literals: sign, integer part, fraction, exponent
NumberTexts ==
    {sg \o ip \o fr \o ex :
        sg \in {<<>>, <<ChMinus>>},
        ip \in {<<ChZero>>, <<49>>, <<49, 50>>},
        fr \in {<<>>, <<ChDot>>, <<ChDot, 53>>, <<ChDot, 50, 53>>},
        ex \in {<<>>, <<ChLowerE>>, <<ChLowerE, 51>>, <<ChUpperE, 51>>,
                <<ChLowerE, ChPlus, 51>>, <<ChLowerE, ChMinus, 50>>,
                <<ChLowerE, 49, 48>>}}

\* the encoding of a Value followed by further bytes
Suffixes == {<<>>, <<ChSpace>>, <<ChSpace, ChNewline>>, <<ChRBracket>>,
             <<ChSpace, ChLowerA>>, <<ChZero>>, <<ChNul, ChSpace>>}

TailedTexts ==
    {encode_message(FALSE, v).bytes \o x :
        v \in (Inner \cup Leaves \cup {IntV(MinInt), IntV(MaxInt)}), x \in Suffixes}

\* pieces of text: "a", "b", "a":0 and "b":1
KeyA == <<ChQuote, ChLowerA, ChQuote>>
KeyB == <<ChQuote, ChLowerB, ChQuote>>
PairA0 == KeyA \o <<ChColon, ChZero>>
PairB1 == KeyB \o <<ChColon, 49>>

\* texts that stop where a value is expected
EndAtValue == {<<>>, <<ChSpace>>, <<ChLBracket, ChZero, ChComma>>,
               <<ChLBrace>> \o KeyA \o <<ChColon>>,
               <<ChLBrace>> \o KeyA \o <<ChColon, ChSpace>>}

\* texts that stop inside the body of a string
EndInString == {<<ChQuote>>, <<ChQuote, ChLowerA>>, <<ChLBracket, ChQuote, ChLowerA>>,
                <<ChLBrace, ChQuote, ChLowerA>>}

\* texts that stop right after the backslash of an escape
EndInEscape == {<<ChQuote, ChBackslash>>, <<ChQuote, ChLowerA, ChBackslash>>}

\* texts that stop among the four hex digits of a unicode escape
EndInUnicode == {<<ChQuote, ChBackslash, ChLowerU>>,
                 <<ChQuote, ChBackslash, ChLowerU, ChZero>>,
                 <<ChQuote, ChBackslash, ChLowerU, ChZero, ChZero, ChLowerE>>}

\* texts that stop inside a literal word
EndInWord == {SubSeq(WordTrue, 1, 1), SubSeq(WordTrue, 1, 3),
              SubSeq(WordFalse, 1, 4), SubSeq(WordNull, 1, 1),
              SubSeq(WordNull, 1, 3), <<ChLBracket>> \o SubSeq(WordNull, 1, 2)}

\* texts that stop where a number needs a digit
EndInNumber == {<<ChMinus>>, <<ChZero, ChDot>>, <<ChMinus, 49, ChDot>>,
                <<49, ChLowerE>>, <<49, ChUpperE, ChPlus>>, <<49, ChLowerE, ChMinus>>}

\* texts that stop where an array takes an element or its end
EndInArray == {<<ChLBracket>>, <<ChLBracket, ChSpace>>, <<ChLBracket, ChZero>>,
               <<ChLBracket, ChZero, ChSpace>>,
               <<ChLBracket, ChLBracket, ChRBracket>>}

\* texts that stop where an object takes a pair or its end
EndInObject == {<<ChLBrace>>, <<ChLBrace, ChSpace>>, <<ChLBrace>> \o PairA0,
                <<ChLBrace>> \o PairA0 \o <<ChSpace>>}

\* texts that stop where an object takes the key after a comma
EndAtKey == {<<ChLBrace>> \o PairA0 \o <<ChComma>>,
             <<ChLBrace>> \o PairA0 \o <<ChComma, ChSpace>>}

\* texts that stop where an object takes the colon after a key
EndAtColon == {<<ChLBrace>> \o KeyA, <<ChLBrace>> \o KeyA \o <<ChSpace>>}

TruncatedTexts == EndAtValue \cup EndInString \cup EndInEscape \cup EndInUnicode
                  \cup EndInWord \cup EndInNumber \cup EndInArray \cup EndInObject
                  \cup EndAtKey \cup EndAtColon

\* well-formed texts of several tokens
WellFormedTexts ==
    {<<ChLBrace>> \o PairA0 \o <<ChRBrace>>,
     <<ChLBrace>> \o PairA0 \o <<ChComma>> \o PairB1 \o <<ChRBrace>>,
     <<ChLBracket, ChZero, ChComma, 49, ChRBracket>>,
     <<ChLBracket>> \o KeyA \o <<ChComma, ChLBrace>> \o PairA0
         \o <<ChRBrace, ChRBracket>>,
     <<ChLBrace>> \o KeyA \o <<ChColon, ChLBracket, ChZero, ChComma, 49,
                                ChRBracket, ChRBrace>>,
     <<ChLBracket>> \o WordTrue \o <<ChComma>> \o WordNull \o <<ChRBracket>>,
     <<ChLBracket, ChMinus, 49, ChDot, 53, ChComma>> \o WordFalse
         \o <<ChRBracket>>}

\* objects of up to MaxListLen + 1 pairs "k":v with k in a, b and v in 0, 1:
\* keys may repeat
PairSeqs == Seqs({ChLowerA, ChLowerB} \X {0, 1}, MaxListLen + 1)

PairText(p) == <<ChQuote, p[1], ChQuote, ChColon, json_int_to_digit(p[2])>>

RECURSIVE ObjectBody(_, _)
ObjectBody(ps, i) ==
    IF i > Len(ps) THEN <<>>
    ELSE (IF i > 1 THEN <<ChComma>> ELSE <<>>) \o PairText(ps[i])
         \o ObjectBody(ps, i + 1)

ObjectText(ps) == <<ChLBrace>> \o ObjectBody(ps, 1) \o <<ChRBrace>>

ObjectTexts == {ObjectText(ps) : ps \in PairSeqs}

\* string literals with a raw control byte, inside an array and as a key
ControlTexts ==
    {<<ChLBracket, ChQuote, ChLowerA, ChNewline, ChQuote, ChRBracket>>,
     <<ChLBrace, ChQuote, ChTab, ChQuote, ChColon, ChZero, ChRBrace>>,
     <<ChQuote, ChLowerA, ChLowerB, ChReturn, ChLowerA, ChQuote>>}

\* a '0' followed by further bytes
LeadingZeroTexts ==
    {<<ChZero, 49>>, <<ChZero, ChLowerA>>, <<ChZero, ChMinus>>,
     <<ChZero, ChZero, 55>>, <<ChSpace, ChZero, 49>>, <<ChZero, ChNewline, 49>>,
     <<ChZero, ChTab>>, <<ChZero, ChSpace, ChReturn>>, <<ChZero, ChUpperE>>,
     <<ChZero, 49, ChDot, 53>>}

\* number literals with a sign, a point or an exponent marker that no digit
\* follows
MalformedNumberTexts ==
    {<<ChMinus>>, <<ChMinus, ChMinus, 49>>, <<ChMinus, ChLowerA>>,
     <<ChMinus, ChDot, 53>>, <<ChZero, ChDot, ChLowerA>>, <<49, ChDot, ChLowerE, 51>>,
     <<49, ChLowerE, ChPlus>>, <<49, ChUpperE, ChMinus>>, <<49, ChLowerE, ChDot>>,
     <<49, ChDot, 53, ChUpperE, ChPlus>>, <<ChLBracket, ChMinus, ChRBracket>>,
     <<ChLBracket, 49, ChDot, ChRBracket>>, <<ChLBracket, 49, ChLowerE, ChRBracket>>}

\* what follows a backslash: the escape characters, other characters, and
\* unicode escapes with four, fewer and no hex digits
EscapeRests ==
    {<<c, ChQuote>> : c \in {ChQuote, ChBackslash, ChSlash, ChLowerB, ChLowerF,
                             ChLowerN, ChLowerR, ChLowerT}}
    \cup {<<c, ChQuote>> : c \in {113, 85, ChZero, ChSpace, ChNul, ChLowerA, 233}}
    \cup {<<ChLowerU>> \o h \o x :
            h \in {<<48, 48, 101, 57>>, <<48, 48, 69, 57>>, <<48, 48, 52, 49>>,
                   <<50, 48, 65, 67>>, <<70, 102, 70, 102>>, <<48, 48, 55, 102>>,
                   <<48, 48, 56, 48>>, <<48, 55, 70, 70>>, <<48, 56, 48, 48>>,
                   <<48, 48, 48, 48>>},
            x \in {<<ChQuote>>, <<ChLowerB, ChQuote>>}}
    \cup {<<ChLowerU>> \o h :
            h \in {<<>>, <<49>>, <<49, 50>>, <<49, 50, 51>>, <<ChQuote>>,
                   <<49, 50, ChQuote>>, <<49, 50, 51, ChQuote>>,
                   <<120, 120, 120, 120, ChQuote>>, <<49, 50, 103, 52, ChQuote>>,
                   <<49, 50, 51, 71, ChQuote>>, <<48, 48, ChNul, 49, ChQuote>>}}
    \cup {<<>>}

\* string literals with one escape sequence, at the start or after an 'a'
EscapeTexts ==
    {<<ChQuote>> \o p \o <<ChBackslash>> \o x :
        p \in {<<>>, <<ChLowerA>>}, x \in EscapeRests}

\* arrays open after one or more elements, the innermost one in .text's last
\* position; .close is the byte that closes it
ArrayPrefixes ==
    {[text |-> t, close |-> ChRBracket] :
        t \in {<<ChLBracket, ChZero>>, <<ChLBracket>> \o KeyA,
               <<ChLBracket, ChZero, ChComma, 49>>,
               <<ChLBracket, ChLBracket, ChRBracket>>,
               <<ChLBracket, ChLBrace, ChRBrace>>,
               <<ChLBracket, ChLowerT, ChLowerR, ChLowerU, ChLowerE>>,
               <<ChLBracket, ChLBracket, ChZero>>,
               <<ChLBrace>> \o KeyA \o <<ChColon, ChLBracket, ChZero>>}}

\* objects open after one or more entries
ObjectPrefixes ==
    {[text |-> t, close |-> ChRBrace] :
        t \in {<<ChLBrace>> \o PairA0, <<ChLBrace>> \o KeyA \o <<ChColon>> \o KeyA,
               <<ChLBrace>> \o PairA0 \o <<ChComma>> \o PairB1,
               <<ChLBrace>> \o PairA0 \o <<ChComma>> \o PairA0,
               <<ChLBrace>> \o KeyA \o <<ChColon, ChLBracket, ChRBracket>>,
               <<ChLBracket, ChLBrace>> \o PairA0}}

ContainerPrefixes == ArrayPrefixes \cup ObjectPrefixes

\* the whitespace between an element and the byte after it
CommaGaps == {<<>>, <<ChSpace>>, <<ChNewline, ChTab>>}

\* bytes found where a comma belongs
CommaBytes ==
    {ChComma, ChRBracket, ChRBrace, ChZero, ChQuote, ChLBracket, ChLBrace,
     ChColon, ChLowerT, ChMinus, 200}

\* arrays and objects with a comma left out or put where none belongs
MissingCommaTexts ==
    {p.text \o w \o <<b>> \o x :
        p \in ContainerPrefixes, w \in CommaGaps, b \in CommaBytes,
        x \in {<<>>, <<ChZero, ChRBracket>>}}
    \cup {<<ChLBracket, ChComma, ChZero, ChRBracket>>,
          <<ChLBracket, ChSpace, ChComma, ChRBracket>>,
          <<ChLBrace, ChComma>> \o PairA0 \o <<ChRBrace>>,
          <<ChLBrace, ChTab, ChComma, ChRBrace>>}

\* arrays that stop where an element is expected
ArrayStarts ==
    {<<ChLBracket>>, <<ChLBracket, 49, ChComma>>,
     <<ChLBracket, ChZero, ChComma, 49, ChComma>>, <<ChLBracket, ChLBracket>>,
     <<ChLBrace>> \o KeyA \o <<ChColon, ChLBracket>>,
     <<ChLBracket>> \o KeyA \o <<ChComma>>}

\* objects that stop before their first entry
ObjectStarts ==
    {<<ChLBrace>>, <<ChLBracket, ChLBrace>>,
     <<ChLBrace>> \o KeyA \o <<ChColon, ChLBrace>>}

\* arrays and objects that the input ends in
UnterminatedTexts ==
    {p \o w :
        p \in {q.text : q \in ContainerPrefixes} \cup ArrayStarts \cup ObjectStarts,
        w \in CommaGaps}

\* objects up to a key position: .first tells the position after '{' from the
\* position after a comma
KeyPositions ==
    {[text |-> t, first |-> TRUE] :
        t \in {<<ChLBrace>>, <<ChLBracket, ChLBrace>>,
               <<ChLBrace>> \o KeyA \o <<ChColon, ChLBrace>>}}
    \cup {[text |-> t, first |-> FALSE] :
        t \in {<<ChLBrace>> \o PairA0 \o <<ChComma>>,
               <<ChLBrace>> \o PairA0 \o <<ChComma>> \o PairB1 \o <<ChComma>>,
               <<ChLBracket, ChLBrace>> \o PairA0 \o <<ChComma>>}}

\* bytes found where a key belongs
KeyBytes ==
    {ChZero, ChMinus, ChLowerT, ChLowerN, ChLBracket, ChLBrace, ChRBrace,
     ChRBracket, ChComma, ChColon, ChLowerA, ChNul, ChQuote, 200}

\* objects with something at a key position, and objects that end there
KeyPositionTexts ==
    {p.text \o w \o <<b>> \o x :
        p \in KeyPositions, w \in CommaGaps, b \in KeyBytes,
        x \in {<<>>, <<ChColon, ChZero, ChRBrace>>}}
    \cup {p.text \o w : p \in KeyPositions, w \in CommaGaps}

\* texts up to a value position; .first marks the position after '[', where
\* ']' closes the empty array
ValuePositions ==
    {[text |-> t, first |-> FALSE] :
        t \in {<<>>, <<ChLBracket, ChZero, ChComma>>,
               <<ChLBrace>> \o KeyA \o <<ChColon>>,
               <<ChLBracket, ChLBracket, ChZero, ChRBracket, ChComma>>}}
    \cup {[text |-> t, first |-> TRUE] :
        t \in {<<ChLBracket>>, <<ChLBrace>> \o KeyA \o <<ChColon, ChLBracket>>}}

\* bytes that start no value, and the first bytes of the literal words
ValueBytes ==
    {ChRBracket, ChRBrace, ChPlus, ChComma, ChColon, ChDot, ChLowerA, ChLowerE,
     84, ChSlash, 1, 127, 128, 200, 255}

\* literal words and misspellings of them
WordTexts ==
    {WordTrue, WordFalse, WordNull, <<ChLowerT>>, <<ChLowerT, ChLowerR>>,
     <<ChLowerT, ChLowerR, ChLowerU, 120>>, <<ChLowerT, ChLowerA>>,
     <<ChLowerT, ChLowerR, ChLowerU, 69>>, <<ChLowerF>>,
     <<ChLowerF, ChLowerA, 108, 115>>, <<ChLowerF, 111, 108, 115, ChLowerE>>,
     <<ChLowerF, ChLowerA, 108, 115, ChLowerE, ChLowerE>>, <<ChLowerN>>,
     <<ChLowerN, ChLowerU, 108>>, <<ChLowerN, ChLowerU, 108, 76>>,
     <<ChLowerN, ChLowerU, 108, ChNul, 108>>, <<ChLowerN, ChLowerU, ChLowerN>>}

\* objects up to the end of a key
KeyEnds ==
    {<<ChLBrace>> \o KeyA, <<ChLBrace>> \o PairA0 \o <<ChComma>> \o KeyB,
     <<ChLBracket, ChLBrace>> \o KeyA}

\* bytes found where a colon belongs
ColonBytes ==
    {ChColon, ChZero, ChComma, ChRBrace, ChQuote, ChLowerA, 61, ChNul, 200}

\* texts with a byte that starts no value, with a misspelt word, or with no
\* colon after a key
ParseFailureTexts ==
    {p.text \o w \o <<b>> \o x :
        p \in ValuePositions, w \in CommaGaps, b \in ValueBytes,
        x \in {<<>>, <<ChZero, ChRBracket>>}}
    \cup {p.text \o w \o x \o y :
        p \in ValuePositions, w \in {<<>>, <<ChSpace>>}, x \in WordTexts,
        y \in {<<>>, <<ChRBracket>>}}
    \cup {p \o w \o x :
        p \in KeyEnds, w \in CommaGaps,
        x \in {<<b>> : b \in ColonBytes} \cup {<<>>, <<ChZero, ChRBrace>>,
                                              <<ChColon, ChZero, ChRBrace>>}}

\* integer literals below MIN_INT64 and above MAX_INT64
OverflowTexts ==
    {DigitText(DecDigits(MaxInt + 1)), DigitText(DecDigits(MaxInt + 2)),
     <<ChMinus>> \o DigitText(DecDigits(MaxInt + 2)),
     <<ChMinus>> \o DigitText(DecDigits(2 * MaxInt)),
     DigitText(DecDigits(2 * MaxInt + 2)), DigitText(DecDigits(2 * MaxInt + 7)),
     <<ChMinus>> \o DigitText(DecDigits(2 * MaxInt + 3)),
     DigitText(DecDigits(10 * MaxInt)),
     <<ChLBracket>> \o DigitText(DecDigits(MaxInt + 1)) \o <<ChRBracket>>}

\* string literals with several escape sequences
MultiEscapeTexts ==
    {<<ChQuote>> \o x \o <<ChQuote>> :
        x \in {<<ChLowerA, ChBackslash, ChLowerU, 48, 48, 48, 48, ChLowerB>>,
               <<ChBackslash, ChLowerN, ChBackslash, ChLowerU, 48, 48, 101, 57>>,
               <<ChBackslash, ChLowerU, 48, 48, 52, 49, ChBackslash, ChQuote,
                 ChBackslash, ChBackslash>>,
               <<ChBackslash, ChLowerT, ChSpace, ChBackslash, ChSlash, ChLowerA>>,
               <<ChBackslash, ChLowerU, 50, 48, 65, 67, ChBackslash, ChLowerU,
                 48, 48, 48, 48>>}}

\* a run of n '0' bytes
RECURSIVE ZeroRun(_)
ZeroRun(n) == IF n = 0 THEN <<>> ELSE <<ChZero>> \o ZeroRun(n - 1)

\* the digits of fractional parts: short ones, ones as long as the literal of
\* MaxInt, and one whose length is the width of the integer type
FractionParts ==
    {<<53>>, <<ChZero, 49>>, <<49, 50, 51>>, <<57, 57, 57, 57>>,
     DigitText(DecDigits(MaxInt)),
     DigitText(DecDigits(MaxInt + 1)),
     ZeroRun(Len(DecDigits(MaxInt)) - 1) \o <<49>>,
     ZeroRun(IntBits)}

\* numbers "0." followed by the digits of a fractional part
FractionTexts == {<<ChZero, ChDot>> \o ds : ds \in FractionParts}

Texts == ShortTexts \cup StringTexts \cup NumberTexts \cup TailedTexts
         \cup TruncatedTexts \cup WellFormedTexts \cup ObjectTexts
         \cup MissingCommaTexts \cup ControlTexts \cup LeadingZeroTexts
         \cup MalformedNumberTexts \cup EscapeTexts \cup UnterminatedTexts
         \cup KeyPositionTexts \cup ParseFailureTexts \cup OverflowTexts
         \cup MultiEscapeTexts \cup FractionTexts

---------------------------------------------------------------------------
(* The codec in use: a message is encoded onto the wire, or bytes arrive on
   the wire, and the bytes on the wire are decoded *)

Init ==
    /\ charSigned \in BOOLEAN
    /\ trapOverflow \in BOOLEAN
    /\ phase = "idle"
    /\ origin = "none"
    /\ message = Blank
    /\ wire = <<>>
    /\ encErr = ErrNone
    /\ decoded = Blank
    /\ decErr = ErrNone
    /\ decOff = 0
    /\ decUnused = 0
    /\ button_state = 0
    /\ engine = TRUE
    /\ log = <<>>

\* the caller keeps the bytes returned, or the error
Encoding(r) ==
    /\ wire' = r.bytes
    /\ encErr' = r.err

\* the caller keeps the value returned, or the error
Decoding(r) ==
    /\ decoded' = r.val
    /\ decErr' = r.err
    /\ decOff' = r.off
    /\ decUnused' = r.unused

\* fl_json_message_codec_encode_message
EncodeMessage(v) ==
    /\ phase = "idle"
    /\ Encoding(encode_message(charSigned, v))
    /\ message' = v
    /\ origin' = "encode"
    /\ phase' = "encoded"
    /\ UNCHANGED <<charSigned, trapOverflow, decoded, decErr, decOff, decUnused>>
    /\ UNCHANGED viewVars

\* the transport delivers a byte buffer
Receive(t) ==
    /\ phase = "idle"
    /\ wire' = t
    /\ origin' = "wire"
    /\ phase' = "received"
    /\ UNCHANGED <<charSigned, trapOverflow, message, encErr, decoded, decErr,
                   decOff, decUnused>>
    /\ UNCHANGED viewVars

\* fl_json_message_codec_decode_message
DecodeMessage ==
    /\ \/ phase = "received"
       \/ phase = "encoded" /\ encErr = ErrNone
    /\ Decoding(decode_message(charSigned, trapOverflow, wire))
    /\ phase' = "decoded"
    /\ UNCHANGED <<charSigned, trapOverflow, origin, message, wire, encErr>>
    /\ UNCHANGED viewVars

\* a call is made, or a buffer delivered, while the codec is idle
Next ==
    \/ phase = "idle" /\ \E v \in Values : EncodeMessage(v)
    \/ phase = "idle" /\ \E t \in Texts : Receive(t)
    \/ DecodeMessage

Spec == Init /\ [][Next]_vars

---------------------------------------------------------------------------
(* The view: GDK button and motion events become pointer events of the
   engine *)

codecVars == <<charSigned, trapOverflow, phase, origin, message, wire, encErr,
               decoded, decErr, decOff, decUnused>>

kFlutterPointerButtonMousePrimary == 1
kFlutterPointerButtonMouseSecondary == 2
kFlutterPointerButtonMouseMiddle == 4

\* the switch on event->button: 0 stands for the default case
PointerButton(b) ==
    IF b = 1 THEN kFlutterPointerButtonMousePrimary
    ELSE IF b = 2 THEN kFlutterPointerButtonMouseMiddle
    ELSE IF b = 3 THEN kFlutterPointerButtonMouseSecondary
    ELSE 0

\* state & button and state ^ button, for a button of one bit
BitAnd(state, button) == IF (state \div button) % 2 = 1 THEN button ELSE 0
BitXor(state, button) ==
    IF BitAnd(state, button) # 0 THEN state - button ELSE state + button

\* the handler returns: the event is logged with the phase sent to the engine,
\* "none" if nothing was sent
Handled(type, b, after, sent) ==
    /\ button_state' = after
    /\ log' = Append(log, [type |-> type, button |-> b, before |-> button_state,
                           after |-> after, sent |-> sent, engine |-> engine])
    /\ UNCHANGED engine
    /\ UNCHANGED codecVars

\* fl_engine_send_mouse_pointer_event, unless the engine is nullptr
SendPhase(p) == IF engine THEN p ELSE "none"

\* fl_view_send_pointer_button_event without the test for a button that is
\* down or up already
fl_view_send_pointer_button_event_NoDrop(type, b, button) ==
    IF button = 0 THEN Handled(type, b, button_state, "none")
    ELSE IF type = "GDK_BUTTON_PRESS"
         THEN Handled(type, b, BitXor(button_state, button),
                      SendPhase(IF button_state = 0 THEN "kDown" ELSE "kMove"))
    ELSE Handled(type, b, BitXor(button_state, button),
                 SendPhase(IF BitXor(button_state, button) = 0 THEN "kUp"
                           ELSE "kMove"))

\* fl_view_send_pointer_button_event, for a press or a release of event
\* button b, which is pointer button `button`
fl_view_send_pointer_button_event(type, b, button) ==
    IF button = 0 THEN Handled(type, b, button_state, "none")
    ELSE IF type = "GDK_BUTTON_PRESS"
         THEN IF BitAnd(button_state, button) # 0
              THEN Handled(type, b, button_state, "none")
              ELSE Handled(type, b, BitXor(button_state, button),
                           SendPhase(IF button_state = 0 THEN "kDown" ELSE "kMove"))
    ELSE IF BitAnd(button_state, button) = 0
         THEN Handled(type, b, button_state, "none")
    ELSE Handled(type, b, BitXor(button_state, button),
                 SendPhase(IF BitXor(button_state, button) = 0 THEN "kUp"
                           ELSE "kMove"))

\* the event types of the button-press-event signal, and the event buttons
PressTypes == {"GDK_BUTTON_PRESS", "GDK_DOUBLE_BUTTON_PRESS", "GDK_TRIPLE_BUTTON_PRESS"}
EventButtons == {1, 2, 3, 8}

fl_view_button_press_event(type, b) ==
    /\ Len(log) < MaxEvents
    /\ IF type \in {"GDK_DOUBLE_BUTTON_PRESS", "GDK_TRIPLE_BUTTON_PRESS"}
       THEN Handled(type, b, button_state, "none")
       ELSE fl_view_send_pointer_button_event(type, b, PointerButton(b))

fl_view_button_release_event(b) ==
    /\ Len(log) < MaxEvents
    /\ fl_view_send_pointer_button_event("GDK_BUTTON_RELEASE", b, PointerButton(b))

fl_view_motion_notify_event ==
    /\ Len(log) < MaxEvents
    /\ Handled("GDK_MOTION_NOTIFY", 0, button_state,
               SendPhase(IF button_state # 0 THEN "kMove" ELSE "kHover"))

\* g_clear_object(&self->engine)
fl_view_dispose ==
    /\ engine
    /\ engine' = FALSE
    /\ UNCHANGED <<button_state, log>>
    /\ UNCHANGED codecVars

\* the view after fl_view_constructed; the build of the codec does not matter
\* to it
ViewInit == Init /\ ~charSigned /\ ~trapOverflow

ViewNext ==
    \/ \E type \in PressTypes, b \in EventButtons : fl_view_button_press_event(type, b)
    \/ \E b \in EventButtons : fl_view_button_release_event(b)
    \/ fl_view_motion_notify_event
    \/ fl_view_dispose

ViewSpec == ViewInit /\ [][ViewNext]_vars

TypeOK ==
    /\ phase \in {"idle", "encoded", "received", "decoded"}
    /\ origin \in {"none", "encode", "wire"}
    /\ \A i \in 1..Len(wire) : wire[i] \in 0..255
    /\ decOff \in 0..Len(wire)

---------------------------------------------------------------------------
(* Properties *)

Encoded == origin = "encode" /\ phase \in {"encoded", "decoded"}
RoundTripped == origin = "encode" /\ phase = "decoded"
Delivered == origin = "wire" /\ phase = "decoded"

\* what a lossless round trip of the message is
RoundTripOk == decErr = ErrNone /\ decoded = message

RECURSIVE NoNonFinite(_)
NoNonFinite(v) ==
    /\ v.tag = "Float" => v.f.cls = "finite"
    /\ \A i \in 1..Len(v.keys) : NoNonFinite(v.keys[i])
    /\ \A i \in 1..Len(v.kids) : NoNonFinite(v.kids[i])

\* Values built from Null, Bool, Int, String, List and Map with String keys
RECURSIVE PlainValue(_)
PlainValue(v) ==
    /\ v.tag \in {"Null", "Bool", "Int", "String", "List", "Map"}
    /\ \A i \in 1..Len(v.keys) : v.keys[i].tag = "String"
    /\ \A i \in 1..Len(v.kids) : PlainValue(v.kids[i])

\* C1: every Value built from Null, Bool, Int, String, List and Map with
\* String keys encodes, and the encoding decodes to an equal Value.
C1_RoundTrip ==
    (Encoded /\ PlainValue(message)) =>
        /\ encErr = ErrNone
        /\ phase = "decoded" => RoundTripOk

NumericList(v) == v.tag \in {"Uint8List", "Int32List", "Int64List", "FloatList"}

HasNonStringKey(v) ==
    v.tag = "Map" /\ \E i \in 1..Len(v.keys) : v.keys[i].tag # "String"

\* C3 as stated: a Map with a key that is not a String encodes, and the
\* encoding decodes to an equal Map.
C3_NonStringKeyRoundTrip ==
    (Encoded /\ HasNonStringKey(message) /\ NoNonFinite(message)) =>
        /\ encErr = ErrNone
        /\ phase = "decoded" => RoundTripOk

\* C3 (amended): a Map with a key that is not a String, holding no non-finite
\* Float, encodes, but the decoder returns no Value for the encoding; when the
\* first key is not a String the error is InvalidObjectKeyType, raised at the
\* first key position.
C3_NonStringKeyRejected ==
    (Encoded /\ HasNonStringKey(message) /\ NoNonFinite(message)) =>
        /\ encErr = ErrNone
        /\ wire[1] = ChLBrace
        /\ phase = "decoded" =>
              /\ decErr # ErrNone
              /\ decoded = Blank
              /\ message.keys[1].tag # "String" =>
                    decErr = ErrInvalidObjectKeyType /\ decOff = 1

C3_Witness ==
    /\ RoundTripped
    /\ message.tag = "Map"
    /\ Len(message.keys) = 2
    /\ message.keys[1].tag = "String"
    /\ message.keys[2].tag = "Int"
    /\ decErr = ErrInvalidObjectKeyType
    /\ decOff > 1

\* C4: the decoder returns a Value only when the cursor, after one value and
\* the whitespace after it, is at the end of the input; when one value was
\* read and bytes remain it fails with AdditionalData, and the count reported
\* is the number of bytes after the cursor, at least 1.
C4_ConsumeAll ==
    phase = "decoded" =>
        LET r == read_value(charSigned, trapOverflow, wire, 0)
        IN /\ decoded # Blank => decErr = ErrNone /\ decOff = Len(wire)
           /\ decErr = ErrNone => decoded # Blank /\ decOff = Len(wire)
           /\ (r.err = ErrNone /\ r.off # Len(wire)) =>
                 /\ decErr = ErrAdditionalData
                 /\ decOff = r.off
           /\ decErr = ErrAdditionalData =>
                 /\ r.err = ErrNone
                 /\ decUnused = Len(wire) - decOff
                 /\ decUnused >= 1

C4_Witness ==
    /\ Delivered
    /\ decErr = ErrAdditionalData
    /\ decOff > 0
    /\ decUnused = 2

\* the decimal text of an integer: '-' if negative, no leading zeros, no '+'
Canonical(n) ==
    IF n < 0 THEN <<ChMinus>> \o DigitText(DecDigits(0 - n))
    ELSE DigitText(DecDigits(n))

HexDigit(v) == IF v < 10 THEN ChZero + v ELSE ChLowerA + (v - 10)

UnicodeEscaped(b) == b < 32 /\ b \notin {ChBackspace, ChFormFeed, ChNewline, ChReturn, ChTab}

RECURSIVE Flatten(_)
Flatten(ss) == IF ss = <<>> THEN <<>> ELSE Head(ss) \o Flatten(Tail(ss))

\* C6: a String all of whose bytes are control bytes without a short escape
\* is written as '"', then \u00XX for each byte (XX its two lowercase
\* hexadecimal digits), then '"'.
C6_UnicodeEscape ==
    (Encoded /\ message.tag = "String"
     /\ \A i \in 1..Len(message.s) : UnicodeEscaped(message.s[i])) =>
        wire = <<ChQuote>>
               \o Flatten([i \in 1..Len(message.s) |->
                             <<ChBackslash, ChLowerU, ChZero, ChZero,
                               HexDigit(message.s[i] \div 16),
                               HexDigit(message.s[i] % 16)>>])
               \o <<ChQuote>>

PlainByte(b) == b >= 32 /\ b # ChQuote /\ b # ChBackslash

\* C7: a String all of whose bytes are at least 0x20 and neither '"' nor '\'
\* is written as '"', its bytes unchanged, '"'; bytes 0x80..0xFF included.
C7_PlainBytesUnchanged ==
    (Encoded /\ message.tag = "String"
     /\ \A i \in 1..Len(message.s) : PlainByte(message.s[i])) =>
        wire = <<ChQuote>> \o message.s \o <<ChQuote>>

PlainStringLiteral(t) ==
    /\ Len(t) >= 2
    /\ t[1] = ChQuote
    /\ t[Len(t)] = ChQuote
    /\ \A i \in 2..(Len(t) - 1) : PlainByte(t[i])

\* C8: a string literal whose bytes between the quotes are all at least 0x20
\* and neither '"' nor '\' decodes, without error, to the String of exactly
\* those bytes; bytes 0x80..0xFF included.
C8_PlainBytesDecoded ==
    (Delivered /\ PlainStringLiteral(wire)) =>
        /\ decErr = ErrNone
        /\ decoded = StringV(SubSeq(wire, 2, Len(wire) - 1))

\* number literals with both a fraction and an exponent
FractionExponentTexts ==
    {sg \o ip \o fr \o ex :
        sg \in {<<>>, <<ChMinus>>},
        ip \in {<<ChZero>>, <<49>>, <<49, 50>>},
        fr \in {<<ChDot, 53>>, <<ChDot, 50, 53>>},
        ex \in {<<ChLowerE, 51>>, <<ChUpperE, 51>>, <<ChLowerE, ChPlus, 51>>,
                <<ChLowerE, ChMinus, 50>>, <<ChLowerE, 49, 48>>}}

\* C9: a number literal with a fraction and an exponent is consumed in full
\* and decodes to one Float.
C9_FractionAndExponent ==
    (Delivered /\ wire \in FractionExponentTexts) =>
        /\ decErr = ErrNone
        /\ decoded.tag = "Float"
        /\ decOff = Len(wire)

\* C10: the text written for a finite Float contains a '.', and decodes in
\* full to a Float.
C10_FloatTextDecodes ==
    (Encoded /\ message.tag = "Float" /\ message.f.cls = "finite") =>
        /\ encErr = ErrNone
        /\ strchr(wire, ChDot)
        /\ phase = "decoded" =>
              /\ decErr = ErrNone
              /\ decoded.tag = "Float"
              /\ decOff = Len(wire)

\* a decode that failed while looking at the end-of-input sentinel
AtEndOfInput ==
    /\ Delivered
    /\ decErr \notin {ErrNone, ErrAdditionalData, ErrTrap}
    /\ current_char(wire, decOff) = ChNul

\* C11 as stated: whenever the decoder fails while its lookahead is the
\* end-of-input sentinel, the error is OutOfData.
C11_EndOfInputOutOfData == AtEndOfInput => decErr = ErrOutOfData

\* C11 (amended): at the end of the input, the error depends on the
\* production: OutOfData where a value is expected, in a string body and where
\* an array or an object takes its next entry or its end;
\* InvalidStringEscapeSequence after a backslash; InvalidStringUnicodeEscape
\* among the hex digits; ParseFailure in a literal word and where a colon is
\* expected; InvalidNumber where a number needs a digit; InvalidObjectKeyType
\* where a key is expected after a comma.  It is never MissingComma or
\* InvalidStringCharacter, the cursor stays at the end and no Value is returned.
C11_EndOfInputByProduction ==
    /\ AtEndOfInput =>
          decErr \in {ErrOutOfData, ErrInvalidStringEscapeSequence,
                      ErrInvalidStringUnicodeEscape, ErrFailed, ErrInvalidNumber,
                      ErrInvalidObjectKeyType}
    /\ (Delivered /\ wire \in TruncatedTexts) =>
          /\ decoded = Blank
          /\ decOff = Len(wire)
          /\ wire \in EndAtValue \cup EndInString \cup EndInArray \cup EndInObject
                => decErr = ErrOutOfData
          /\ wire \in EndInEscape => decErr = ErrInvalidStringEscapeSequence
          /\ wire \in EndInUnicode => decErr = ErrInvalidStringUnicodeEscape
          /\ wire \in EndInWord \cup EndAtColon => decErr = ErrFailed
          /\ wire \in EndInNumber => decErr = ErrInvalidNumber
          /\ wire \in EndAtKey => decErr = ErrInvalidObjectKeyType

C11_Witness ==
    /\ Delivered
    /\ wire = <<ChLBrace>> \o KeyA
    /\ decErr = ErrFailed
    /\ decOff = Len(wire)

\* C12: encoding a Value that holds a NaN or an infinity anywhere (top-level
\* Float, FloatList element, nested in a List, Map key or Map value) fails with
\* InvalidNumber and returns no bytes, whatever was written before it.
C12_NonFiniteRejected ==
    (Encoded /\ ~NoNonFinite(message)) =>
        /\ encErr = ErrInvalidNumber
        /\ wire = <<>>
        /\ phase = "encoded"

C12_Witness ==
    /\ Encoded
    /\ message.tag = "List"
    /\ Len(message.kids) = 2
    /\ message.kids[1] = IntV(1)
    /\ message.kids[2].tag = "List"
    /\ ~NoNonFinite(message.kids[2])
    /\ encErr = ErrInvalidNumber
    /\ wire = <<>>

\* the bytes that are a token by themselves
Structural == {ChLBracket, ChRBracket, ChLBrace, ChRBrace, ChComma, ChColon}

\* a byte of a number literal, of a literal word, or of neither
WordByte(b) == b \notin Structural /\ b # ChQuote /\ ~is_json_whitespace(b)

\* the index of the quote that closes the string literal whose body starts at
\* j, or the last index of the text
RECURSIVE StringEnd(_, _)
StringEnd(t, j) ==
    IF j >= Len(t) THEN Len(t)
    ELSE IF t[j] = ChBackslash THEN StringEnd(t, j + 2)
    ELSE IF t[j] = ChQuote THEN j
    ELSE StringEnd(t, j + 1)

\* the last index of the run of word bytes that holds index j
RECURSIVE RunEnd(_, _)
RunEnd(t, j) ==
    IF j < Len(t) /\ WordByte(t[j + 1]) THEN RunEnd(t, j + 1) ELSE j

\* the text from index i on, cut into tokens: structural bytes, string
\* literals, runs of word bytes (numbers, words), and single whitespace bytes
RECURSIVE Tokens(_, _)
Tokens(t, i) ==
    IF i > Len(t) THEN <<>>
    ELSE LET e == IF t[i] = ChQuote THEN StringEnd(t, i + 1)
                  ELSE IF WordByte(t[i]) THEN RunEnd(t, i)
                  ELSE i
         IN <<SubSeq(t, i, e)>> \o Tokens(t, e + 1)

WhitespaceRuns == {<<ChSpace>>, <<ChTab, ChNewline>>, <<ChReturn, ChSpace, ChNewline>>}

\* the tokens with the whitespace w put in the gaps G: gap 0 is before the
\* first token, gap k after token k
RECURSIVE Padded(_, _, _, _)
Padded(toks, G, w, k) ==
    (IF k \in G THEN w ELSE <<>>)
    \o (IF k >= Len(toks) THEN <<>>
        ELSE toks[k + 1] \o Padded(toks, G, w, k + 1))

\* each gap alone, and all the gaps together
GapSets(n) == {{g} : g \in 0..n} \cup {0..n}

\* every set of gaps of a text of fewer than MaxTextLen tokens
AllGapSets(n) == IF n < MaxTextLen THEN SUBSET (0..n) ELSE {}

PaddedTokens(toks) ==
    {Padded(toks, G, w, 0) : G \in GapSets(Len(toks)), w \in WhitespaceRuns}
    \cup {Padded(toks, G, <<ChSpace, ChReturn>>, 0) : G \in AllGapSets(Len(toks))}

WhitespaceVariants(t) == PaddedTokens(Tokens(t, 1))

\* the texts whitespace is inserted in: the received texts of every form, and
\* what the encoder writes
PaddedTexts ==
    ShortTexts \cup StringTexts \cup NumberTexts \cup TailedTexts
    \cup TruncatedTexts \cup WellFormedTexts \cup ObjectTexts \cup ControlTexts
    \cup LeadingZeroTexts \cup MalformedNumberTexts

EncodedTexts == {encode_message(sg, v).bytes : sg \in BOOLEAN, v \in Values}

\* the outcome r of another decode agrees with the one in the state: the same
\* Value, or a failure as well
SameOutcome(r) ==
    IF decErr = ErrNone THEN r.err = ErrNone /\ r.val = decoded
    ELSE r.err # ErrNone

\* C13: whitespace inserted before the first token, after the last or between
\* two tokens changes neither the Value a text decodes to, nor a failure into
\* a success.
C13_WhitespaceInsensitive ==
    (phase = "decoded" /\ wire \in PaddedTexts \cup EncodedTexts) =>
        \A t \in WhitespaceVariants(wire) :
            SameOutcome(decode_message(charSigned, trapOverflow, t))

C13_Witness ==
    /\ Delivered
    /\ wire = <<ChLBrace>> \o PairA0 \o <<ChRBrace>>
    /\ decErr = ErrNone
    /\ decoded = MapV(<<StrA>>, <<IntV(0)>>)
    /\ <<ChLBrace>> \o KeyA \o <<ChTab, ChNewline, ChColon, ChZero, ChRBrace>>
          \in WhitespaceVariants(wire)

\* the pairs of a text of the form of ObjectText, read off its bytes
PairsOf(t) ==
    [i \in 1..((Len(t) - 1) \div 6) |->
        <<t[6 * (i - 1) + 3], t[6 * (i - 1) + 6] - ChZero>>]

IsObjectText(t) ==
    /\ Len(t) >= 2
    /\ t[1] = ChLBrace
    /\ (Len(t) = 2 \/ Len(t) % 6 = 1)
    /\ PairsOf(t) \in PairSeqs
    /\ t = ObjectText(PairsOf(t))

\* the value of the last pair of ps with key k
LastValue(ps, k) ==
    ps[CHOOSE i \in 1..Len(ps) :
          /\ ps[i][1] = k
          /\ \A j \in (i + 1)..Len(ps) : ps[j][1] # k][2]

\* every Map inside v has pairwise different keys
RECURSIVE DistinctKeys(_)
DistinctKeys(v) ==
    /\ Distinct(v.keys)
    /\ \A i \in 1..Len(v.keys) : DistinctKeys(v.keys[i])
    /\ \A i \in 1..Len(v.kids) : DistinctKeys(v.kids[i])

\* C14: an object with repeated keys decodes without error to a Map with one
\* entry per distinct key, holding the value of the key's last occurrence; a
\* repeated key does not change that a comma is required before the next pair.
C14_DuplicateKeys ==
    /\ (phase = "decoded" /\ decErr = ErrNone) => DistinctKeys(decoded)
    /\ (Delivered /\ IsObjectText(wire)) =>
          /\ decErr = ErrNone
          /\ decoded.tag = "Map"
          /\ Len(decoded.keys) =
                Cardinality({PairsOf(wire)[i][1] : i \in 1..Len(PairsOf(wire))})
          /\ \A i \in 1..Len(PairsOf(wire)) :
                \E j \in 1..Len(decoded.keys) :
                    /\ decoded.keys[j] = StringV(<<PairsOf(wire)[i][1]>>)
                    /\ decoded.kids[j] =
                          IntV(LastValue(PairsOf(wire), PairsOf(wire)[i][1]))
    /\ (Delivered
        /\ wire = <<ChLBrace>> \o PairA0 \o <<ChComma>> \o PairA0 \o <<ChSpace>>
                  \o PairB1 \o <<ChRBrace>>) =>
          decErr = ErrMissingComma

C14_Witness ==
    /\ Delivered
    /\ wire = ObjectText(<<<<ChLowerA, 0>>, <<ChLowerB, 1>>, <<ChLowerA, 1>>>>)
    /\ decErr = ErrNone
    /\ decoded = MapV(<<StrA, StrB>>, <<IntV(1), IntV(1)>>)

\* the error kinds a call can set
ErrorKinds == {ErrOutOfData, ErrAdditionalData, ErrFailed, ErrMissingComma,
               ErrInvalidNumber, ErrInvalidObjectKeyType, ErrInvalidStringCharacter,
               ErrInvalidStringEscapeSequence, ErrInvalidStringUnicodeEscape}

\* a decode that returned: a Value and no error, or no Value and one error
DecodeOutcome ==
    \/ decErr = ErrNone /\ decoded # Blank
    \/ decErr \in ErrorKinds /\ decoded = Blank

\* an encode that returned: bytes and no error, or no bytes and one error
EncodeOutcome ==
    \/ encErr = ErrNone /\ wire # <<>>
    \/ encErr \in ErrorKinds /\ wire = <<>>

C15_NoPartialResultWithoutOverflow ==
    /\ (phase = "decoded" /\ decErr # ErrTrap) => DecodeOutcome
    /\ Encoded => EncodeOutcome

\* a raw control byte 0x01..0x1F
ControlByte(b) == b >= 1 /\ b < 32

\* the text is a string literal up to index i, where it has a raw control
\* byte after plain bytes only
ControlAt(t, i) ==
    /\ i >= 2
    /\ i <= Len(t)
    /\ t[1] = ChQuote
    /\ ControlByte(t[i])
    /\ \A j \in 2..(i - 1) : PlainByte(t[j])

\* C16: a string literal with a raw control byte 0x01..0x1F before its closing
\* quote makes the decoder fail with InvalidStringCharacter, at that byte or
\* before it.
C16_ControlBytesRejected ==
    /\ Delivered =>
          \A i \in 2..Len(wire) :
              ControlAt(wire, i) =>
                  /\ decErr = ErrInvalidStringCharacter
                  /\ decoded = Blank
                  /\ decOff <= i - 1
                  /\ ~charSigned => decOff = i - 1
    /\ (Delivered /\ wire \in ControlTexts) => decErr = ErrInvalidStringCharacter

C16_Witness ==
    /\ Delivered
    /\ wire = <<ChQuote, ChLowerA, ChLowerB, ChReturn, ChLowerA, ChQuote>>
    /\ decErr = ErrInvalidStringCharacter
    /\ decOff = 3

\* the text starts, after whitespace, with a '0' that is followed by a byte
\* other than '.', 'e' and 'E'
LeadingZero(t) ==
    /\ read_whitespace(t, 0) + 2 <= Len(t)
    /\ t[read_whitespace(t, 0) + 1] = ChZero
    /\ t[read_whitespace(t, 0) + 2] \notin {ChDot, ChLowerE, ChUpperE}

\* the offset after the '0' and the whitespace that follows it
AfterZero(t) == read_whitespace(t, read_whitespace(t, 0) + 1)

\* C17 as stated: a top-level '0' followed by any byte other than '.', 'e' and
\* 'E' makes the decoder fail with AdditionalData and return no value.
C17_LeadingZero ==
    (Delivered /\ LeadingZero(wire)) =>
        /\ decErr = ErrAdditionalData
        /\ decoded = Blank

\* C17 as the code has it: the decoder reads Int 0 and skips the whitespace
\* after it; it fails with AdditionalData at the first byte that is left, and
\* returns Int 0 when only whitespace follows the '0'.
C17_LeadingZeroThenData ==
    (Delivered /\ LeadingZero(wire)) =>
        /\ decErr \notin {ErrInvalidNumber, ErrFailed}
        /\ AfterZero(wire) < Len(wire) =>
               /\ decErr = ErrAdditionalData
               /\ decoded = Blank
               /\ decOff = AfterZero(wire)
               /\ decUnused = Len(wire) - AfterZero(wire)
        /\ AfterZero(wire) = Len(wire) =>
               /\ decErr = ErrNone
               /\ decoded = IntV(0)

C17_Witness ==
    /\ Delivered
    /\ wire = <<ChZero, ChZero, 55>>
    /\ decErr = ErrAdditionalData
    /\ decOff = 1
    /\ decUnused = 2

\* the byte of t at index i, the end-of-input sentinel past the end
ByteAt(t, i) == IF i > Len(t) THEN ChNul ELSE t[i]

IsDigit(c) == json_digit_to_int(c) >= 0

\* index i of t holds a '-' or a '.' that no digit follows
SignOrPointAlone(t, i) ==
    /\ t[i] \in {ChMinus, ChDot}
    /\ ~IsDigit(ByteAt(t, i + 1))

\* index i of t holds an exponent marker that, past an optional sign, no
\* digit follows
ExponentAlone(t, i) ==
    /\ t[i] \in {ChLowerE, ChUpperE}
    /\ IF ByteAt(t, i + 1) \in {ChPlus, ChMinus}
       THEN ~IsDigit(ByteAt(t, i + 2))
       ELSE ~IsDigit(ByteAt(t, i + 1))

\* a fractional part ends right before index i of t
AfterFraction(t, i) ==
    \E j \in 1..(i - 2) :
        /\ t[j] = ChDot
        /\ \A k \in (j + 1)..(i - 1) : IsDigit(t[k])

Malformed(t) ==
    \E i \in 1..Len(t) : SignOrPointAlone(t, i) \/ ExponentAlone(t, i)

\* C18: a number literal with a '-', a '.' or an exponent marker (with its
\* optional sign) that no digit follows makes the decoder fail with
\* InvalidNumber, wherever in the literal it occurs.
C18_MalformedNumber ==
    (/\ Delivered
     /\ wire \in NumberTexts \cup MalformedNumberTexts
     /\ Malformed(wire)) =>
        /\ decErr = ErrInvalidNumber
        /\ decoded = Blank

\* the same, for literals whose only defect is not an exponent marker after a
\* fractional part
C18_MalformedNumberOutsideFraction ==
    (/\ Delivered
     /\ wire \in NumberTexts \cup MalformedNumberTexts
     /\ \E i \in 1..Len(wire) :
            \/ SignOrPointAlone(wire, i)
            \/ ExponentAlone(wire, i) /\ ~AfterFraction(wire, i)) =>
        /\ decErr = ErrInvalidNumber
        /\ decoded = Blank

\* an exponent marker with no digit after a fractional part is left unread
C18_ExponentAfterFractionUnread ==
    (/\ Delivered
     /\ wire \in NumberTexts \cup MalformedNumberTexts
     /\ ~(\E i \in 1..Len(wire) : SignOrPointAlone(wire, i))
     /\ \E i \in 1..Len(wire) : ExponentAlone(wire, i) /\ AfterFraction(wire, i)) =>
        /\ decErr = ErrAdditionalData
        /\ decoded = Blank

\* a plain ASCII byte of a string literal
PlainAscii(b) == PlainByte(b) /\ b < 128

\* the text is a string literal whose first backslash is at index k
EscapeAt(t, k) ==
    /\ k >= 2
    /\ k <= Len(t)
    /\ t[1] = ChQuote
    /\ t[k] = ChBackslash
    /\ \A j \in 2..(k - 1) : PlainAscii(t[j])

\* the literal goes on from index e with plain bytes up to its closing quote
PlainTail(t, e) ==
    /\ e <= Len(t)
    /\ t[Len(t)] = ChQuote
    /\ \A j \in e..(Len(t) - 1) : PlainAscii(t[j])

SimpleEscapes ==
    {ChQuote, ChBackslash, ChSlash, ChLowerB, ChLowerF, ChLowerN, ChLowerR, ChLowerT}

\* the character an escape character stands for
EscapeChar(c) ==
    IF c = ChLowerB THEN ChBackspace
    ELSE IF c = ChLowerF THEN ChFormFeed
    ELSE IF c = ChLowerN THEN ChNewline
    ELSE IF c = ChLowerR THEN ChReturn
    ELSE IF c = ChLowerT THEN ChTab
    ELSE c

\* the value of a hex digit of either case, -1 for any other byte
HexValue(c) ==
    IF c \in 48..57 THEN c - 48
    ELSE IF c \in 97..102 THEN c - 87
    ELSE IF c \in 65..70 THEN c - 55
    ELSE 0 - 1

\* the number of hex digits of t from index i on, four at most
RECURSIVE HexRun(_, _, _)
HexRun(t, i, n) ==
    IF n = 4 \/ HexValue(ByteAt(t, i)) < 0 THEN n ELSE HexRun(t, i + 1, n + 1)

\* the 16-bit value of the four hex digits of t from index i on
CodeAt(t, i) ==
    4096 * HexValue(t[i]) + 256 * HexValue(t[i + 1]) + 16 * HexValue(t[i + 2])
    + HexValue(t[i + 3])

\* the bytes of t from index a to index b
Slice(t, a, b) == [j \in 1..(b - a + 1) |-> t[a + j - 1]]

\* the outcome the escape at index k of t has, for code points chosen by Codes
EscapeOutcome(t, k, Codes) ==
    IF ByteAt(t, k + 1) = ChLowerU
    THEN IF HexRun(t, k + 2, 0) < 4
         THEN /\ decErr = ErrInvalidStringUnicodeEscape
              /\ decoded = Blank
              /\ decOff = k + 1 + HexRun(t, k + 2, 0)
         ELSE (PlainTail(t, k + 6) /\ CodeAt(t, k + 2) \in Codes) =>
                  /\ decErr = ErrNone
                  /\ decoded = StringV(g_string_append_unichar(
                                           Slice(t, 2, k - 1), CodeAt(t, k + 2))
                                       \o Slice(t, k + 6, Len(t) - 1))
    ELSE IF ByteAt(t, k + 1) \in SimpleEscapes
         THEN PlainTail(t, k + 2) =>
                  /\ decErr = ErrNone
                  /\ decoded = StringV(Slice(t, 2, k - 1)
                                       \o <<EscapeChar(t[k + 1])>>
                                       \o Slice(t, k + 2, Len(t) - 1))
    ELSE /\ decErr = ErrInvalidStringEscapeSequence
         /\ decoded = Blank
         /\ decOff = k

\* C19: after a backslash in a string literal, 'u' and four hex digits of
\* either case append the code point of that value, the eight escape
\* characters append the character they stand for, 'u' and fewer than four hex
\* digits fail with InvalidStringUnicodeEscape, and any other character fails
\* with InvalidStringEscapeSequence.
C19_EscapeDecoding ==
    Delivered =>
        \A k \in 2..Len(wire) :
            EscapeAt(wire, k) => EscapeOutcome(wire, k, 0..65535)

\* the same, for every code point but U+0000
C19_EscapeDecodingNonZero ==
    Delivered =>
        \A k \in 2..Len(wire) :
            EscapeAt(wire, k) => EscapeOutcome(wire, k, 1..65535)

\* the escape \\u0000 ends the decoded String where it stands
C19_ZeroEscapeTruncates ==
    Delivered =>
        \A k \in 2..Len(wire) :
            (/\ EscapeAt(wire, k)
             /\ ByteAt(wire, k + 1) = ChLowerU
             /\ HexRun(wire, k + 2, 0) = 4
             /\ CodeAt(wire, k + 2) = 0
             /\ PlainTail(wire, k + 6)) =>
                /\ decErr = ErrNone
                /\ decoded = StringV(Slice(wire, 2, k - 1))

\* text t starts with text p
StartsWith(t, p) == Len(p) <= Len(t) /\ \A j \in 1..Len(p) : t[j] = p[j]

\* a byte that can go on with a number
NumberByte(b) == IsDigit(b) \/ b \in {ChDot, ChLowerE, ChUpperE}

\* after the elements of p and the whitespace w, text t has a byte that is
\* neither the closing byte, nor the end of the input, nor a comma
CommaMissing(t, p, w) ==
    /\ StartsWith(t, p.text \o w)
    /\ Len(t) > Len(p.text) + Len(w)
    /\ t[Len(p.text) + Len(w) + 1] \notin {p.close, ChNul, ChComma}
    /\ ~is_json_whitespace(t[Len(p.text) + Len(w) + 1])
    /\ (w = <<>> /\ IsDigit(p.text[Len(p.text)])) =>
           ~NumberByte(t[Len(p.text) + Len(w) + 1])

\* the text has a comma as the first byte, after whitespace, of its outermost
\* array or object
LeadingComma(t) ==
    /\ Len(t) >= 2
    /\ t[1] \in {ChLBracket, ChLBrace}
    /\ current_char(t, read_whitespace(t, 1)) = ChComma

\* C20: in an array or an object that holds an element already, a next byte
\* after whitespace that is neither the closing byte, nor the end of the input,
\* nor a comma makes the decoder fail with MissingComma at that byte; before
\* the first element a comma is neither required nor accepted.
C20_MissingComma ==
    /\ Delivered =>
          \A p \in ContainerPrefixes, w \in CommaGaps :
              CommaMissing(wire, p, w) =>
                  /\ decErr = ErrMissingComma
                  /\ decoded = Blank
                  /\ decOff = Len(p.text) + Len(w)
    /\ (Delivered /\ LeadingComma(wire)) =>
          /\ decErr = (IF wire[1] = ChLBracket THEN ErrFailed
                       ELSE ErrInvalidObjectKeyType)
          /\ decoded = Blank
          /\ decOff = read_whitespace(wire, 1)
    /\ (Delivered /\ wire \in WellFormedTexts) => decErr = ErrNone

C20_Witness ==
    /\ Delivered
    /\ wire = <<ChLBracket, ChZero, ChComma, 49, ChSpace, ChZero, ChZero, ChRBracket>>
    /\ decErr = ErrMissingComma
    /\ decOff = 5

\* C21: when the input ends where an array expects its closing bracket, a
\* comma or an element, or where an object expects its closing brace or a
\* comma after zero or more entries, the decoder fails with OutOfData.
C21_UnterminatedContainer ==
    (Delivered /\ wire \in UnterminatedTexts) =>
        /\ decErr = ErrOutOfData
        /\ decoded = Blank
        /\ decOff = Len(wire)

C21_Witness ==
    /\ Delivered
    /\ wire = <<ChLBracket, ChZero, ChComma, 49>>
    /\ decErr = ErrOutOfData
    /\ decOff = 4

\* text t has key position p, whitespace w and then a lookahead that is not
\* whitespace; the lookahead is the sentinel where t ends
AtKeyPosition(t, p, w) ==
    /\ StartsWith(t, p.text \o w)
    /\ ~is_json_whitespace(current_char(t, Len(p.text) + Len(w)))

\* the lookahead at key position p of t, past the whitespace w
KeyLookahead(t, p, w) == current_char(t, Len(p.text) + Len(w))

\* C22 as stated: at every key position, a lookahead other than '"' and than
\* the closing brace of an empty object makes the decoder fail with
\* InvalidObjectKeyType.
C22_ObjectKeyType ==
    Delivered =>
        \A p \in KeyPositions, w \in CommaGaps :
            (/\ AtKeyPosition(wire, p, w)
             /\ KeyLookahead(wire, p, w) # ChQuote
             /\ ~(p.first /\ KeyLookahead(wire, p, w) = ChRBrace)) =>
                /\ decErr = ErrInvalidObjectKeyType
                /\ decoded = Blank

\* C22 as the code has it: the same, but the end of the input at the key
\* position after '{' is OutOfData; the error is raised at the lookahead.
C22_ObjectKeyTypeOrEnd ==
    Delivered =>
        \A p \in KeyPositions, w \in CommaGaps :
            (/\ AtKeyPosition(wire, p, w)
             /\ KeyLookahead(wire, p, w) # ChQuote
             /\ ~(p.first /\ KeyLookahead(wire, p, w) = ChRBrace)) =>
                /\ decErr = (IF p.first /\ KeyLookahead(wire, p, w) = ChNul
                             THEN ErrOutOfData ELSE ErrInvalidObjectKeyType)
                /\ decoded = Blank
                /\ decOff = Len(p.text) + Len(w)

C22_Witness ==
    /\ Delivered
    /\ wire = <<ChLBrace>> \o PairA0 \o <<ChComma, ChSpace, ChRBrace>>
    /\ decErr = ErrInvalidObjectKeyType
    /\ decOff = 8

\* text t has value position p, whitespace w and then a lookahead that is
\* neither whitespace nor the closing bracket of an empty array
AtValuePosition(t, p, w) ==
    /\ StartsWith(t, p.text \o w)
    /\ ~is_json_whitespace(current_char(t, Len(p.text) + Len(w)))
    /\ ~(p.first /\ current_char(t, Len(p.text) + Len(w)) = ChRBracket)

\* a byte that starts a value
ValueStart(c) ==
    \/ c \in {ChLBrace, ChLBracket, ChQuote, ChMinus, ChLowerT, ChLowerF, ChLowerN}
    \/ IsDigit(c)

\* the literal word that starts with c
WordOf(c) ==
    IF c = ChLowerT THEN WordTrue ELSE IF c = ChLowerF THEN WordFalse ELSE WordNull

\* the bytes of t from offset o on do not spell word
Misspelt(t, o, word) == \E i \in 1..Len(word) : ByteAt(t, o + i) # word[i]

\* the offset of the first byte of t, from offset o on, that differs from word
MisspeltAt(t, o, word) ==
    o - 1 + CHOOSE i \in 1..Len(word) :
                /\ ByteAt(t, o + i) # word[i]
                /\ \A j \in 1..(i - 1) : ByteAt(t, o + j) = word[j]

\* the outcome at a value position whose lookahead, at offset o, is c
ValuePositionOutcome(t, o, c) ==
    /\ (c # ChNul /\ ~ValueStart(c)) =>
           /\ decErr = ErrFailed
           /\ decoded = Blank
           /\ decOff = o
    /\ (c \in {ChLowerT, ChLowerF, ChLowerN} /\ Misspelt(t, o, WordOf(c))) =>
           /\ decErr = ErrFailed
           /\ decoded = Blank
           /\ decOff = MisspeltAt(t, o, WordOf(c))

\* C23: the decoder fails with ParseFailure, and with no other kind, when the
\* lookahead at a value position is a byte, other than the end-of-input
\* sentinel, that starts no value, when a word that starts with t, f or n does
\* not spell true, false or null, and when no ':' follows, after whitespace,
\* the key of an object.
C23_ParseFailure ==
    Delivered =>
        /\ \A p \in ValuePositions, w \in CommaGaps :
               AtValuePosition(wire, p, w) =>
                   ValuePositionOutcome(wire, Len(p.text) + Len(w),
                                        current_char(wire, Len(p.text) + Len(w)))
        /\ \A p \in KeyEnds, w \in CommaGaps :
               (/\ StartsWith(wire, p \o w)
                /\ ~is_json_whitespace(current_char(wire, Len(p) + Len(w)))
                /\ current_char(wire, Len(p) + Len(w)) # ChColon) =>
                   /\ decErr = ErrFailed
                   /\ decoded = Blank
                   /\ decOff = Len(p) + Len(w)

C23_Witness ==
    /\ Delivered
    /\ wire = <<ChLBracket, ChZero, ChComma, ChSpace, ChLowerF, ChLowerA, 108, 115,
                ChRBracket>>
    /\ decErr = ErrFailed
    /\ decOff = 8

\* the texts of parts from index i on, joined by single commas
RECURSIVE Joined(_, _)
Joined(parts, i) ==
    IF i > Len(parts) THEN <<>>
    ELSE (IF i # 1 THEN <<ChComma>> ELSE <<>>) \o parts[i] \o Joined(parts, i + 1)

\* the encoding of a Value on its own
EncodingOf(v) == encode_message(charSigned, v).bytes

\* '[', the encodings of the children joined by commas, ']'
ListText(v) ==
    <<ChLBracket>>
    \o Joined([i \in 1..Len(v.kids) |-> EncodingOf(v.kids[i])], 1)
    \o <<ChRBracket>>

\* '{', the pairs key ':' value joined by commas, '}'
MapText(v) ==
    <<ChLBrace>>
    \o Joined([i \in 1..Len(v.kids) |->
                  EncodingOf(v.keys[i]) \o <<ChColon>> \o EncodingOf(v.kids[i])], 1)
    \o <<ChRBrace>>

\* no whitespace from index i of t on, but in string literals; in tells that
\* index i is in a string literal
RECURSIVE NoWhitespaceOutside(_, _, _)
NoWhitespaceOutside(t, i, in) ==
    IF i > Len(t) THEN TRUE
    ELSE IF in
         THEN IF t[i] = ChBackslash THEN NoWhitespaceOutside(t, i + 2, TRUE)
              ELSE NoWhitespaceOutside(t, i + 1, t[i] # ChQuote)
    ELSE /\ ~is_json_whitespace(t[i])
         /\ NoWhitespaceOutside(t, i + 1, t[i] = ChQuote)

\* C24: a List is written as '[', the encodings of its children in order
\* joined by single commas, ']'; a Map as '{', for each pair in order the
\* encoding of the key, ':', the encoding of the value, joined by single
\* commas, '}', keys of every variant included; there is no whitespace outside
\* string literals and nothing after the closing character.
C24_ContainerFormat ==
    (Encoded /\ encErr = ErrNone /\ message.tag \in {"List", "Map"}) =>
        /\ wire = (IF message.tag = "List" THEN ListText(message)
                   ELSE MapText(message))
        /\ NoWhitespaceOutside(wire, 1, FALSE)
        /\ wire[Len(wire)] = (IF message.tag = "List" THEN ChRBracket ELSE ChRBrace)

C24_Witness ==
    /\ Encoded
    /\ message = ListV(<<MapV(<<IntV(1)>>, <<StrA>>), ListV(<<IntV(1), StrA>>)>>)
    /\ wire = <<ChLBracket, ChLBrace, 49, ChColon>> \o KeyA
              \o <<ChRBrace, ChComma, ChLBracket, 49, ChComma>> \o KeyA
              \o <<ChRBracket, ChRBracket>>

\* the cursor of a read that started at offset o of text t is left at r.off:
\* not before o, and not past the end of t
CursorWithin(t, o, r) == r.off >= o /\ r.off <= Len(t)

\* C25: the cursor of a decode call never decreases and stays within
\* 0..input length: it is advanced over bytes of the input only, never over
\* the end-of-input sentinel.  Every read, of whitespace or of a value, that
\* starts at an offset of the input leaves the cursor at that offset or after
\* it and at the end of the input at most, whether it succeeds or fails.
C25_CursorInvariant ==
    phase = "decoded" =>
        /\ decOff >= 0
        /\ decOff <= Len(wire)
        /\ decUnused = (IF decErr = ErrAdditionalData THEN Len(wire) - decOff ELSE 0)
        /\ \A o \in 0..Len(wire) :
               /\ read_whitespace(wire, o) >= o
               /\ read_whitespace(wire, o) <= Len(wire)
               /\ CursorWithin(wire, o, read_value(charSigned, trapOverflow, wire, o))

C25_Witness ==
    /\ Delivered
    /\ wire = <<ChQuote, ChLowerA, ChBackslash>>
    /\ decErr = ErrInvalidStringEscapeSequence
    /\ decOff = Len(wire)

\* the depth of nesting of a Value: 0 for a scalar, 1 for an empty List or Map
RECURSIVE Depth(_)
Depth(v) ==
    IF v.tag \notin {"List", "Map"} THEN 0
    ELSE 1 + (IF v.kids = <<>> THEN 0
              ELSE CHOOSE d \in {Depth(v.kids[i]) : i \in 1..Len(v.kids)} :
                       \A i \in 1..Len(v.kids) : Depth(v.kids[i]) <= d)

\* the number of '[' and '{' among the first n bytes of t
Opened(t, n) == Cardinality({i \in 1..n : t[i] \in {ChLBracket, ChLBrace}})

\* a read that succeeded from offset o on has moved the cursor
Advanced(o, r) == r.err = ErrNone => r.off > o

\* C26: a decode call ends, with a Value or an error, on every input.  Each
\* iteration of a loop of the readers returns or moves the cursor on by a byte
\* at least: a value, a comma and an escape sequence that are read take bytes,
\* whitespace is skipped only where there is some, and a string or a run of
\* digits that is read ends after its start.  The depth of the Value read is at
\* most the number of '[' and '{' consumed.
C26_DecodeTerminates ==
    /\ phase = "received" =>
          decode_message(charSigned, trapOverflow, wire).err
              \in ErrorKinds \cup {ErrNone, ErrTrap}
    /\ phase = "decoded" =>
          /\ decErr = ErrNone => Depth(decoded) <= Opened(wire, decOff)
          /\ \A o \in 0..(Len(wire) - 1) :
                 /\ Advanced(o, read_value(charSigned, trapOverflow, wire, o))
                 /\ Advanced(o, read_comma(wire, o))
                 /\ Advanced(o, read_json_string_escape(wire, o))
                 /\ read_whitespace(wire, o) > o <=> is_json_whitespace(wire[o + 1])
                 /\ read_json_digits(wire, o, FALSE).off > o <=> IsDigit(wire[o + 1])

C26_Witness ==
    /\ Delivered
    /\ wire = <<ChLBracket>> \o KeyA \o <<ChComma, ChLBrace>> \o PairA0
              \o <<ChRBrace, ChRBracket>>
    /\ decErr = ErrNone
    /\ Depth(decoded) = 2
    /\ Opened(wire, decOff) = 2

\* the text is an integer literal: an optional '-' and digits with no leading
\* zero
IntegerLiteral(t) ==
    /\ t # <<>>
    /\ Len(t) > (IF t[1] = ChMinus THEN 1 ELSE 0)
    /\ \A i \in 1..Len(t) : IsDigit(t[i]) \/ (i = 1 /\ t[i] = ChMinus)
    /\ Len(t) > (IF t[1] = ChMinus THEN 2 ELSE 1) =>
           t[IF t[1] = ChMinus THEN 2 ELSE 1] # ChZero

\* the number the digits of t from index i on stand for, after the number v
RECURSIVE DigitsValue(_, _, _)
DigitsValue(t, i, v) ==
    IF i > Len(t) THEN v ELSE DigitsValue(t, i + 1, 10 * v + (t[i] - ChZero))

\* the mathematical value of an integer literal
LiteralValue(t) ==
    IF t[1] = ChMinus THEN 0 - DigitsValue(t, 2, 0) ELSE DigitsValue(t, 1, 0)

\* C27: for an integer literal whose value is above MAX_INT64 or below
\* MIN_INT64, the decoder does not return an Int of another value.
C27_OutOfRangeReported ==
    (Delivered /\ IntegerLiteral(wire) /\ ~InRange(LiteralValue(wire))) =>
        ~(decErr = ErrNone /\ decoded.tag = "Int" /\ decoded.n # LiteralValue(wire))

\* on a build that wraps, a literal out of the range decodes to the Int its
\* value wraps to
C27_OutOfRangeWraps ==
    (/\ Delivered
     /\ ~trapOverflow
     /\ IntegerLiteral(wire)
     /\ ~InRange(LiteralValue(wire))
     /\ LiteralValue(wire) > 2 * MinInt
     /\ LiteralValue(wire) <= 2 * MaxInt + 1) =>
        /\ decErr = ErrNone
        /\ decoded = IntV(Wrap(LiteralValue(wire)))

\* the bytes of t from index i up to its last but one are plain ASCII bytes
\* and valid escape sequences
RECURSIVE ValidBody(_, _)
ValidBody(t, i) ==
    IF i >= Len(t) THEN i = Len(t)
    ELSE IF t[i] = ChBackslash
         THEN IF ByteAt(t, i + 1) = ChLowerU
              THEN HexRun(t, i + 2, 0) = 4 /\ ValidBody(t, i + 6)
              ELSE ByteAt(t, i + 1) \in SimpleEscapes /\ ValidBody(t, i + 2)
    ELSE PlainAscii(t[i]) /\ ValidBody(t, i + 1)

\* a string literal of plain ASCII bytes and valid escape sequences
ValidLiteral(t) ==
    /\ Len(t) >= 2
    /\ t[1] = ChQuote
    /\ t[Len(t)] = ChQuote
    /\ ValidBody(t, 2)

\* the code points of the body of a valid literal, from index i on: one for
\* each plain byte and one for each escape sequence
RECURSIVE CodePoints(_, _)
CodePoints(t, i) ==
    IF i >= Len(t) THEN <<>>
    ELSE IF t[i] = ChBackslash
         THEN IF t[i + 1] = ChLowerU
              THEN <<CodeAt(t, i + 2)>> \o CodePoints(t, i + 6)
              ELSE <<EscapeChar(t[i + 1])>> \o CodePoints(t, i + 2)
    ELSE <<t[i]>> \o CodePoints(t, i + 1)

\* the UTF-8 bytes of a sequence of code points
RECURSIVE Utf8(_)
Utf8(cps) ==
    IF cps = <<>> THEN <<>>
    ELSE g_string_append_unichar(<<>>, Head(cps)) \o Utf8(Tail(cps))

\* C28: a string literal of plain characters and valid escapes decodes to the
\* String of its code points, one for each plain character and one for each
\* escape, in source order; a \\u0000 escape does not cut the String short.
C28_OneCodePointPerEscape ==
    (Delivered /\ ValidLiteral(wire)) =>
        /\ decErr = ErrNone
        /\ decoded = StringV(Utf8(CodePoints(wire, 2)))

\* the same for literals with no \\u0000 escape
C28_OneCodePointPerNonZeroEscape ==
    (/\ Delivered
     /\ ValidLiteral(wire)
     /\ \A i \in 1..Len(CodePoints(wire, 2)) : CodePoints(wire, 2)[i] # 0) =>
        /\ decErr = ErrNone
        /\ decoded = StringV(Utf8(CodePoints(wire, 2)))

\* the decoded String ends before the first \\u0000 escape
C28_ZeroEscapeTruncates ==
    (Delivered /\ ValidLiteral(wire)) =>
        /\ decErr = ErrNone
        /\ decoded = StringV(CStr(Utf8(CodePoints(wire, 2))))

\* entry e of the log is a press or a release that changed button_state
Accepted(e) ==
    /\ e.type \in {"GDK_BUTTON_PRESS", "GDK_BUTTON_RELEASE"}
    /\ e.after # e.before

\* the phase that the claim gives entry e of the log
PhaseOf(e) ==
    IF e.type = "GDK_MOTION_NOTIFY"
    THEN (IF e.before # 0 THEN "kMove" ELSE "kHover")
    ELSE IF ~Accepted(e) THEN "none"
    ELSE IF e.type = "GDK_BUTTON_PRESS" /\ e.before = 0 THEN "kDown"
    ELSE IF e.type = "GDK_BUTTON_RELEASE" /\ e.after = 0 THEN "kUp"
    ELSE "kMove"

\* the pointer button of entry e is recorded down before the event
Held(e) == PointerButton(e.button) # 0 /\ BitAnd(e.before, PointerButton(e.button)) # 0

\* C29: while the engine is set, kDown is sent exactly for a press that takes
\* button_state from zero to non-zero, kUp exactly for a release that takes it
\* back to zero, kMove for every other accepted press or release and for
\* motion while button_state is not zero, kHover only for motion while it is
\* zero; a press of a button recorded down and a release of a button recorded
\* up send nothing and leave button_state as it is; and no two kDown are sent
\* without a kUp between them.
C29_PointerPhases ==
    /\ \A i \in 1..Len(log) :
          log[i].engine =>
              /\ log[i].sent = PhaseOf(log[i])
              /\ (log[i].type = "GDK_BUTTON_PRESS" /\ Held(log[i])) =>
                     log[i].sent = "none" /\ log[i].after = log[i].before
              /\ (log[i].type = "GDK_BUTTON_RELEASE" /\ ~Held(log[i])) =>
                     log[i].sent = "none" /\ log[i].after = log[i].before
              /\ (log[i].type = "GDK_BUTTON_PRESS" /\ ~Held(log[i])
                  /\ PointerButton(log[i].button) # 0) => Accepted(log[i])
              /\ (log[i].type = "GDK_BUTTON_RELEASE" /\ Held(log[i])) =>
                     Accepted(log[i])
    /\ \A i, j \in 1..Len(log) :
          (i < j /\ log[i].sent = "kDown" /\ log[j].sent = "kDown") =>
              \E k \in (i + 1)..(j - 1) : log[k].sent = "kUp"
    /\ \A i \in 1..Len(log) : ~log[i].engine => log[i].sent = "none"

C29_Witness ==
    /\ Len(log) = 3
    /\ engine
    /\ log[1].sent = "kDown"
    /\ log[2].type = "GDK_BUTTON_PRESS"
    /\ log[2].sent = "kMove"
    /\ log[3].type = "GDK_BUTTON_PRESS"
    /\ log[3].button = log[1].button
    /\ log[3].sent = "none"
    /\ button_state = 3

\* the digits of the fractional part of a text of FractionTexts, as the code
\* accumulates them
FractionRead(t) == read_json_digits(t, 2, TRUE)

\* the fractional part of t has few enough digits for 10^k to be in the range
\* of the integer type
ShortFraction(t) == Len(t) - 2 < Len(DecDigits(MaxInt))

\* C30: for a fractional part of k digits, any k >= 1, no signed overflow
\* happens, the numerator is the k-digit number, the divisor is 10^k, the
\* divisor is positive and the numerator is below it, so that
\* fraction/divisor lies in [0, 1)
C30_FractionExact ==
    (Delivered /\ wire \in FractionTexts) =>
        /\ ~FractionRead(wire).ovf
        /\ FractionRead(wire).divisor > 0
        /\ FractionRead(wire).value >= 0
        /\ FractionRead(wire).value < FractionRead(wire).divisor
        /\ Len(wire) - 2 < 10 =>
               /\ FractionRead(wire).value = DigitsValue(wire, 3, 0)
               /\ FractionRead(wire).divisor = Pow(10, Len(wire) - 2)

\* the same for a fractional part short enough for 10^k to be in the range
C30_FractionExactInRange ==
    (Delivered /\ wire \in FractionTexts /\ ShortFraction(wire)) =>
        /\ ~FractionRead(wire).ovf
        /\ FractionRead(wire).value = DigitsValue(wire, 3, 0)
        /\ FractionRead(wire).divisor = Pow(10, Len(wire) - 2)
        /\ FractionRead(wire).value < FractionRead(wire).divisor
        /\ decErr = ErrNone

\* a fractional part with as many digits as the literal of MaxInt or more
\* overflows the divisor; with as many digits as the type has bits the
\* divisor wraps to zero
C30_LongFractionOverflows ==
    (Delivered /\ wire \in FractionTexts /\ ~ShortFraction(wire)) =>
        /\ FractionRead(wire).ovf
        /\ trapOverflow => decErr = ErrTrap
        /\ Len(wire) - 2 = IntBits => FractionRead(wire).divisor = 0

=============================================================================
